---- MODULE Spec2Model ----
(***************************************************************************)
(* cli-repl-kit: the interactive command resolution engine.                *)
(*                                                                         *)
(* Text is a sequence of one-character strings; a word (command name,      *)
(* parameter name, argument token) is a non-empty text without whitespace. *)
(* The command tree is a click.Group: a leaf command `run` and a group     *)
(* `cfg` with the subcommand `set`.  The parameter list of the commands is *)
(* drawn at start-up from every well-formed declaration up to MaxParams.   *)
(***************************************************************************)
EXTENDS Integers, Sequences, FiniteSets, TLC

VARIABLES
    cli,               \* click.Group: command name -> command node
    validation_rules,  \* ValidationManager.validation_rules: path -> rule
    history,           \* the input buffer's history strings
    output,            \* the output sink: lines given to append_output
    invoked,           \* command bodies run so far: <<path, kwargs>>
    exited,            \* event.app.exit() has been called
    enable_agent_mode, \* the session echoes text that is not a command
    last,              \* the call last made, with the sizes before it
    input_buffer,      \* the input Buffer: working lines, index, cursor
    state,             \* REPLState: completions, selection, placeholder
    before,            \* input_buffer and state when the last key arrived
    keys,              \* key events handled so far
    callback,          \* what the bodies of the commands do when invoked
    raised             \* an exception left the dispatcher

vars == <<cli, validation_rules, history, output, invoked, exited,
          enable_agent_mode, last, input_buffer, state, before, keys,
          callback, raised>>

----------------------------------------------------------------------------
(* Bounds of the model *)

MaxParams == 1     \* parameters declared by a command
MaxArgs == 2       \* argument tokens of a submission or validate call
MaxKeys == 5       \* key events of a session
MaxText == 9       \* characters in the buffer after text is typed into it
MaxSubmits == 2    \* submissions of a session at the dispatcher
MaxTokens == 2     \* tokens after the slash of a text given to the completer

----------------------------------------------------------------------------
(* Text *)

Slash == "/"
Space == " "
Whitespace == {" ", "\n"}

StartsWith(s, p) ==
    /\ Len(p) <= Len(s)
    /\ SubSeq(s, 1, Len(p)) = p

Drop(s, n) == SubSeq(s, n + 1, Len(s))

RECURSIVE SkipWs(_)
SkipWs(s) ==
    IF s = <<>> THEN <<>>
    ELSE IF Head(s) \in Whitespace THEN SkipWs(Tail(s)) ELSE s

RECURSIVE TakeWord(_)
TakeWord(s) ==
    IF s = <<>> THEN <<>>
    ELSE IF Head(s) \in Whitespace THEN <<>>
    ELSE <<Head(s)>> \o TakeWord(Tail(s))

\* str.split(): the maximal runs of non-whitespace characters, in order
RECURSIVE split(_)
split(s) ==
    LET t == SkipWs(s) IN
    IF t = <<>> THEN <<>>
    ELSE LET w == TakeWord(t) IN <<w>> \o split(Drop(t, Len(w)))

\* " ".join(words)
RECURSIVE join(_)
join(words) ==
    IF words = <<>> THEN <<>>
    ELSE IF Len(words) = 1 THEN words[1]
    ELSE words[1] \o <<Space>> \o join(Tail(words))

Newline == "\n"

RECURSIVE rstrip(_, _)
rstrip(s, chars) ==
    IF s = <<>> THEN <<>>
    ELSE IF s[Len(s)] \in chars THEN rstrip(SubSeq(s, 1, Len(s) - 1), chars)
    ELSE s

\* s.split("\n"): the pieces between the newlines, the empty ones included
RECURSIVE split_lines(_)
split_lines(s) ==
    IF \A i \in DOMAIN s : s[i] /= Newline THEN <<s>>
    ELSE LET i == CHOOSE i \in DOMAIN s :
                      /\ s[i] = Newline
                      /\ \A k \in 1..(i - 1) : s[k] /= Newline
         IN  <<SubSeq(s, 1, i - 1)>> \o split_lines(Drop(s, i))

----------------------------------------------------------------------------
(* Words of the model *)

w_run == <<"r", "u", "n">>
w_cfg == <<"c", "f", "g">>
w_set == <<"s", "e", "t">>
w_zz == <<"z", "z">>
w_quit == <<"q", "u", "i", "t">>
w_exit == <<"e", "x", "i", "t">>
w_status == <<"s", "t", "a", "t", "u", "s">>
w_info == <<"i", "n", "f", "o">>

\* the built-in names recognised before the command tree is looked up
BuiltinNames == {w_quit, w_exit, w_status, w_info}

\* parameter names, by position of declaration
ParamNames == << <<"p">>, <<"q">>, <<"r">>, <<"s">> >>

\* click.Choice(["a", "b"])
ChoiceValues == {<<"a">>, <<"b">>}

tok_a == <<"a">>
tok_z == <<"z">>

\* the flag of an option: "--" + name
opts(name) == <<"-", "-">> \o name

IsOptionToken(t) == Len(t) > 1 /\ t[1] = "-"

----------------------------------------------------------------------------
(* Command tree *)

ArgumentKinds ==
    [kind : {"argument"}, required : BOOLEAN, nargs : {1, -1},
     type : {"str", "choice"}]

OptionKinds ==
    [kind : {"option"}, required : BOOLEAN, nargs : {1},
     type : {"str", "choice"}]

ParamKinds == ArgumentKinds \cup OptionKinds

Named(k, i) ==
    [name |-> ParamNames[i], kind |-> k.kind, required |-> k.required,
     nargs |-> k.nargs, type |-> k.type]

\* click refuses two arguments with nargs = -1
WellFormed(ks) ==
    Cardinality({i \in DOMAIN ks :
                   ks[i].kind = "argument" /\ ks[i].nargs = -1}) <= 1

ParamLists ==
    UNION {
      {[i \in 1..n |-> Named(ks[i], i)] :
          ks \in {f \in [1..n -> ParamKinds] : WellFormed(f)}}
      : n \in 0..MaxParams}

\* a click.Command, and a click.Group with its subcommands
Leaf(ps) == [isGroup |-> FALSE, params |-> ps, commands |-> <<>>]
Group(subs) == [isGroup |-> TRUE, params |-> <<>>, commands |-> subs]

\* the tree of a session: /run and /cfg set declare the drawn parameters
Tree(ps) ==
    [n \in {w_run, w_cfg} |->
        IF n = w_run THEN Leaf(ps)
        ELSE Group([m \in {w_set} |-> Leaf(ps)])]

Arguments(params) ==
    SelectSeq(params, LAMBDA p : p.kind = "argument")

----------------------------------------------------------------------------
(* Validation rules: ValidationManager *)

NoRule ==
    [level |-> "none", required_args |-> <<>>, optional_args |-> <<>>,
     arg_count_min |-> 0, arg_count_max |-> 0, choice_params |-> {},
     required_options |-> <<>>, option_names |-> {},
     has_required_params |-> FALSE, has_optional_params |-> FALSE]

\* extract_param that counts an unlimited argument in arg_count_min
extract_param_counted(rule, param) ==
    IF param.kind = "argument" THEN
        [rule EXCEPT
           !.required_args =
               IF param.required THEN Append(@, param.name) ELSE @,
           !.optional_args =
               IF param.required THEN @ ELSE Append(@, param.name),
           !.arg_count_min = @ + (IF param.required THEN 1 ELSE 0),
           !.arg_count_max =
               IF param.nargs = -1 THEN -1
               ELSE IF @ /= -1 THEN @ + param.nargs ELSE @,
           !.choice_params =
               IF param.type = "choice" THEN @ \cup {param.name} ELSE @,
           !.has_required_params =
               @ \/ param.required \/ param.type = "choice",
           !.has_optional_params = @ \/ ~param.required]
    ELSE
        [rule EXCEPT
           !.required_options =
               IF param.required THEN Append(@, param.name) ELSE @,
           !.option_names = @ \cup {param.name},
           !.choice_params =
               IF param.type = "choice" THEN @ \cup {param.name} ELSE @,
           !.has_required_params = @ \/ param.required]

\* one turn of the loop over cmd.params
extract_param(rule, param) ==
    IF param.kind = "argument" THEN
        [rule EXCEPT
           !.required_args =
               IF param.required THEN Append(@, param.name) ELSE @,
           !.optional_args =
               IF param.required THEN @ ELSE Append(@, param.name),
           !.arg_count_min =
               IF param.nargs = -1 THEN @
               ELSE @ + (IF param.required THEN param.nargs ELSE 0),
           !.arg_count_max =
               IF param.nargs = -1 THEN -1
               ELSE IF @ /= -1 THEN @ + param.nargs ELSE @,
           !.choice_params =
               IF param.type = "choice" THEN @ \cup {param.name} ELSE @,
           !.has_required_params =
               @ \/ param.required \/ param.type = "choice",
           !.has_optional_params = @ \/ ~param.required]
    ELSE
        [rule EXCEPT
           !.required_options =
               IF param.required THEN Append(@, param.name) ELSE @,
           !.option_names = @ \cup {param.name},
           !.choice_params =
               IF param.type = "choice" THEN @ \cup {param.name} ELSE @,
           !.has_required_params = @ \/ param.required]

RECURSIVE extract_params(_, _)
extract_params(rule, params) ==
    IF params = <<>> THEN rule
    ELSE extract_params(extract_param(rule, Head(params)), Tail(params))

infer_level(rule) ==
    IF rule.has_required_params THEN "required"
    ELSE IF rule.has_optional_params THEN "optional"
    ELSE "none"

extract_validation_rule(cmd) ==
    LET rule == extract_params(NoRule, cmd.params) IN
    [level |-> infer_level(rule),
     required_args |-> rule.required_args,
     optional_args |-> rule.optional_args,
     arg_count_min |-> rule.arg_count_min,
     arg_count_max |-> rule.arg_count_max,
     choice_params |-> rule.choice_params,
     required_options |-> rule.required_options,
     option_names |-> rule.option_names,
     click_command |-> cmd]

\* "<group>.<child>"
Dot == "."
\* subcmd_path that keys a subcommand by its own name
subcmd_path_bare(cmd_name, subcmd_name) == subcmd_name

subcmd_path(cmd_name, subcmd_name) == cmd_name \o <<Dot>> \o subcmd_name

introspect_commands(tree) ==
    LET leaves == {n \in DOMAIN tree : ~tree[n].isGroup}
        groups == {n \in DOMAIN tree : tree[n].isGroup}
        subs == UNION {{<<n, m>> : m \in DOMAIN tree[n].commands} : n \in groups}
        paths == leaves \cup {subcmd_path(s[1], s[2]) : s \in subs}
    IN  [path \in paths |->
           IF path \in leaves
           THEN extract_validation_rule(tree[path])
           ELSE LET s == CHOOSE s \in subs : subcmd_path(s[1], s[2]) = path
                IN extract_validation_rule(tree[s[1]].commands[s[2]])]

----------------------------------------------------------------------------
(* click's structural binding: Command.parse_args on a fresh Context *)

NoWord == <<>>

Bound(ok, error, param, value, values) ==
    [ok |-> ok, error |-> error, param |-> param, value |-> value,
     values |-> values]

OptionNamed(params, flag) ==
    {i \in DOMAIN params :
        params[i].kind = "option" /\ opts(params[i].name) = flag}

\* the parser's pass over the tokens: an option takes the token after it,
\* every other token is positional
RECURSIVE process_options(_, _, _, _)
process_options(params, rargs, largs, seen) ==
    IF rargs = <<>> THEN
        [error |-> "", param |-> NoWord, largs |-> largs, seen |-> seen]
    ELSE IF IsOptionToken(Head(rargs)) THEN
        LET found == OptionNamed(params, Head(rargs)) IN
        IF found = {} THEN
            [error |-> "NoSuchOption", param |-> Head(rargs),
             largs |-> largs, seen |-> seen]
        ELSE LET i == CHOOSE i \in found : TRUE IN
            IF Len(rargs) < 2 THEN
                [error |-> "BadOptionUsage", param |-> params[i].name,
                 largs |-> largs, seen |-> seen]
            ELSE process_options(params, Drop(rargs, 2), largs,
                     Append(seen, [name |-> params[i].name,
                                   value |-> <<rargs[2]>>]))
    ELSE process_options(params, Tail(rargs), Append(largs, Head(rargs)), seen)

\* _unpack_args: positional tokens to the arguments, left to right up to the
\* nargs = -1 argument, right to left after it; the value of an argument is
\* the sequence of its tokens, empty when it got none
unpack_args(arguments, largs) ==
    LET L == Len(arguments)
        n == Len(largs)
        stars == {i \in 1..L : arguments[i].nargs = -1}
    IN  IF stars = {} THEN
            [values |-> [i \in 1..L |->
                            IF i <= n THEN <<largs[i]>> ELSE <<>>],
             extra |-> IF n > L THEN Drop(largs, L) ELSE <<>>]
        ELSE
            LET k == CHOOSE i \in stars : TRUE
                nb == IF k - 1 < n THEN k - 1 ELSE n
                R == Drop(largs, nb)
                r == Len(R)
                m == L - k
                taken == IF m < r THEN m ELSE r
            IN  [values |-> [i \in 1..L |->
                    IF i < k THEN (IF i <= n THEN <<largs[i]>> ELSE <<>>)
                    ELSE IF i = k THEN SubSeq(R, 1, r - taken)
                    ELSE IF r - (L - i) >= 1 THEN <<R[r - (L - i)]>>
                    ELSE <<>>],
                 extra |-> <<>>]

\* the last value given to an option, empty when it was not given
RECURSIVE option_value(_, _)
option_value(seen, name) ==
    IF seen = <<>> THEN <<>>
    ELSE IF seen[Len(seen)].name = name THEN seen[Len(seen)].value
    ELSE option_value(SubSeq(seen, 1, Len(seen) - 1), name)

\* the names of the options in the order of their first use
RECURSIVE first_uses(_, _)
first_uses(seen, acc) ==
    IF seen = <<>> THEN acc
    ELSE first_uses(Tail(seen),
            IF \E j \in DOMAIN acc : acc[j] = Head(seen).name THEN acc
            ELSE Append(acc, Head(seen).name))

ArgumentIndex(params, i) ==
    Cardinality({j \in 1..i : params[j].kind = "argument"})

\* the value the parser gives parameter i
parsed_value(params, i, seen, unpacked) ==
    IF params[i].kind = "argument"
    THEN unpacked.values[ArgumentIndex(params, i)]
    ELSE option_value(seen, params[i].name)

\* iter_params_for_processing: the options used, in the order of use, then
\* the arguments, then the options not used, each in declaration order
processing_order(params, seen) ==
    LET used == first_uses(seen, <<>>)
        idx(name) == CHOOSE i \in DOMAIN params : params[i].name = name
        nUsed == Len(used)
        isArg(i) == params[i].kind = "argument"
        isRest(i) == params[i].kind = "option"
                     /\ ~\E j \in DOMAIN used : used[j] = params[i].name
        args == SelectSeq([i \in DOMAIN params |-> i], isArg)
        rest == SelectSeq([i \in DOMAIN params |-> i], isRest)
    IN  [j \in 1..nUsed |-> idx(used[j])] \o args \o rest

\* process_value that does not check `required`
process_value_lenient(param, value) ==
    LET bad == {j \in DOMAIN value : value[j] \notin ChoiceValues} IN
    IF param.type = "choice" /\ bad /= {} THEN
        [error |-> "BadParameter", param |-> param.name,
         value |-> value[CHOOSE j \in bad : \A h \in bad : j <= h]]
    ELSE [error |-> "", param |-> NoWord, value |-> NoWord]

\* process_value that does not apply the choice type
process_value_untyped(param, value) ==
    IF param.required /\ value = <<>> THEN
        [error |-> "MissingParameter", param |-> param.name, value |-> NoWord]
    ELSE [error |-> "", param |-> NoWord, value |-> NoWord]

\* Parameter.process_value: the type is applied, then `required` is checked
process_value(param, value) ==
    LET bad == {j \in DOMAIN value : value[j] \notin ChoiceValues} IN
    IF param.type = "choice" /\ bad /= {} THEN
        [error |-> "BadParameter", param |-> param.name,
         value |-> value[CHOOSE j \in bad : \A h \in bad : j <= h]]
    ELSE IF param.required /\ value = <<>> THEN
        [error |-> "MissingParameter", param |-> param.name, value |-> NoWord]
    ELSE [error |-> "", param |-> NoWord, value |-> NoWord]

RECURSIVE process_params(_, _, _, _)
process_params(params, order, seen, unpacked) ==
    IF order = <<>> THEN [error |-> "", param |-> NoWord, value |-> NoWord]
    ELSE LET res == process_value(params[Head(order)],
                        parsed_value(params, Head(order), seen, unpacked))
         IN IF res.error /= "" THEN res
            ELSE process_params(params, Tail(order), seen, unpacked)

parse_args(cmd, args) ==
    LET params == cmd.params
        optpass == process_options(params, args, <<>>, <<>>)
        unpacked == unpack_args(Arguments(params), optpass.largs)
        values == [i \in DOMAIN params |->
                     [name |-> params[i].name,
                      value |-> parsed_value(params, i, optpass.seen, unpacked)]]
        res == process_params(params, processing_order(params, optpass.seen),
                              optpass.seen, unpacked)
    IN  IF optpass.error /= "" THEN
            Bound(FALSE, optpass.error, optpass.param, NoWord, <<>>)
        ELSE IF res.error /= "" THEN
            Bound(FALSE, res.error, res.param, res.value, <<>>)
        ELSE IF unpacked.extra /= <<>> THEN
            Bound(FALSE, "UsageError", NoWord, unpacked.extra[1], <<>>)
        ELSE Bound(TRUE, "", NoWord, NoWord, values)

----------------------------------------------------------------------------
(* ValidationManager.validate_command *)

NoMessage == [tag |-> "", param |-> NoWord, value |-> NoWord]

ValidationResult(status, message) == [status |-> status, message |-> message]

should_block(result) == result.status = "invalid"
should_warn(result) == result.status = "warning"

\* the message of a failed binding: the MissingParameter message names the
\* parameter, str(e) of the other errors names what click reports
validation_message(bound) ==
    IF bound.error = "MissingParameter"
    THEN [tag |-> "Missing required argument", param |-> bound.param,
          value |-> NoWord]
    ELSE [tag |-> bound.error, param |-> bound.param, value |-> bound.value]

\* what the parser leaves in the list it is handed: it takes every token it
\* reads off the front of the list, and stops at the flag it does not know
RECURSIVE rargs_after_parse(_, _)
rargs_after_parse(params, rargs) ==
    IF rargs = <<>> THEN <<>>
    ELSE IF IsOptionToken(Head(rargs)) THEN
        IF OptionNamed(params, Head(rargs)) = {} THEN Tail(rargs)
        ELSE IF Len(rargs) < 2 THEN <<>>
        ELSE rargs_after_parse(params, Drop(rargs, 2))
    ELSE rargs_after_parse(params, Tail(rargs))

\* the caller's list after ValidationManager.validate_command: the parser is
\* handed cmd_args.copy()
cmd_args_after_validate_command(rules, cmd_path, cmd_args) == cmd_args

\* the caller's list after REPL._validate_command_auto: the parser is handed
\* cmd_args
cmd_args_after_validate_command_auto(rules, cmd_path, cmd_args) ==
    IF cmd_path \notin DOMAIN rules THEN cmd_args
    ELSE IF rules[cmd_path].level = "none" THEN cmd_args
    ELSE rargs_after_parse(rules[cmd_path].click_command.params, cmd_args)

\* validate_command that resolves a failed binding of level optional to valid
validate_command_lenient(rules, cmd_path, cmd_args) ==
    IF cmd_path \notin DOMAIN rules THEN
        [result |-> ValidationResult("valid", NoMessage), level |-> "None"]
    ELSE IF rules[cmd_path].level = "none" THEN
        [result |-> ValidationResult("valid", NoMessage), level |-> "None"]
    ELSE
        LET rule == rules[cmd_path]
            bound == parse_args(rule.click_command, cmd_args)
        IN  IF bound.ok \/ rule.level = "optional" THEN
                [result |-> ValidationResult("valid", NoMessage),
                 level |-> rule.level]
            ELSE
                [result |-> ValidationResult("invalid",
                                             validation_message(bound)),
                 level |-> rule.level]

\* validate_command that binds the arguments whatever the level of the rule
validate_command_binds_all(rules, cmd_path, cmd_args) ==
    IF cmd_path \notin DOMAIN rules THEN
        [result |-> ValidationResult("valid", NoMessage), level |-> "None"]
    ELSE
        LET rule == rules[cmd_path]
            bound == parse_args(rule.click_command, cmd_args)
        IN  IF bound.ok THEN
                [result |-> ValidationResult("valid", NoMessage),
                 level |-> rule.level]
            ELSE
                [result |-> ValidationResult("invalid",
                                             validation_message(bound)),
                 level |-> rule.level]

validate_command(rules, cmd_path, cmd_args) ==
    IF cmd_path \notin DOMAIN rules THEN
        [result |-> ValidationResult("valid", NoMessage), level |-> "None"]
    ELSE IF rules[cmd_path].level = "none" THEN
        [result |-> ValidationResult("valid", NoMessage), level |-> "None"]
    ELSE
        LET rule == rules[cmd_path]
            bound == parse_args(rule.click_command, cmd_args)
        IN  IF bound.ok THEN
                [result |-> ValidationResult("valid", NoMessage),
                 level |-> rule.level]
            ELSE
                [result |-> ValidationResult("invalid",
                                             validation_message(bound)),
                 level |-> rule.level]

----------------------------------------------------------------------------
(* CommandExecutor *)

Line(kind, style, tag, words) ==
    [kind |-> kind, style |-> style, tag |-> tag, words |-> words]

BlankLine == Line("blank", "", "", <<>>)

NoCommand == Leaf(<<>>)

\* the subcommands named by the leading words, and the words left over
RECURSIVE subcommand_chain(_, _, _)
subcommand_chain(current_cmd, arg_words, chain) ==
    IF arg_words = <<>> THEN [chain |-> chain, remaining |-> <<>>]
    ELSE IF current_cmd.isGroup
            /\ Head(arg_words) \in DOMAIN current_cmd.commands
    THEN subcommand_chain(current_cmd.commands[Head(arg_words)],
                          Tail(arg_words), Append(chain, Head(arg_words)))
    ELSE [chain |-> chain, remaining |-> arg_words]

command_icon(has_args, has_error, has_warning) ==
    IF has_warning THEN "warning"
    ELSE IF has_args THEN "command_with_args"
    ELSE IF has_error THEN "command_error"
    ELSE "command_success"

format_command_display(tree, command_text, has_error, has_warning) ==
    LET text == IF StartsWith(command_text, <<Slash>>)
                THEN Tail(command_text) ELSE command_text
        words == split(text)
    IN  IF words = <<>> THEN <<>>
        ELSE
            LET cmd_name == words[1]
                has_args == Len(words) > 1
                current_cmd == IF cmd_name \in DOMAIN tree
                               THEN tree[cmd_name] ELSE NoCommand
                parsed == subcommand_chain(current_cmd, Tail(words), <<>>)
                cmd_display ==
                    Line("command",
                         command_icon(has_args, has_error, has_warning),
                         "", <<cmd_name>> \o parsed.chain)
            IN  IF parsed.remaining = <<>> THEN <<cmd_display>>
                ELSE <<cmd_display,
                       Line("indent", "", "", <<join(parsed.remaining)>>)>>

\* the keyword arguments _execute_click_command builds from the tokens, with
\* the defaults Context.invoke adds for the parameters left out
RECURSIVE bind_arguments(_, _, _)
bind_arguments(arguments, args, arg_idx) ==
    IF arguments = <<>> THEN <<>>
    ELSE LET param == Head(arguments) IN
        IF param.nargs = -1 THEN
            <<[name |-> param.name, value |-> Drop(args, arg_idx)]>>
            \o [i \in 1..(Len(arguments) - 1) |->
                   [name |-> arguments[i + 1].name, value |-> <<>>]]
        ELSE IF arg_idx < Len(args) THEN
            <<[name |-> param.name, value |-> <<args[arg_idx + 1]>>]>>
            \o bind_arguments(Tail(arguments), args, arg_idx + 1)
        ELSE
            <<[name |-> param.name, value |-> <<>>]>>
            \o bind_arguments(Tail(arguments), args, arg_idx)

invoke_kwargs(cmd, args) ==
    LET bound == bind_arguments(Arguments(cmd.params), args, 0) IN
    [i \in DOMAIN cmd.params |->
        IF cmd.params[i].kind = "argument"
        THEN bound[ArgumentIndex(cmd.params, i)]
        ELSE [name |-> cmd.params[i].name, value |-> <<>>]]

\* what the body of a command may do when it is invoked: return, raise an
\* Exception, raise SystemExit, raise click's MissingParameter for a
\* parameter, or raise MissingParameter built without a parameter
Callbacks ==
    {"returns", "raises", "exits", "missing", "missing_unnamed",
     "silent", "warns", "complains", "trails"}

\* what the body has written to standard output when it returns or raises:
\* nothing, the name it was reached by, or that name and an empty line
stdout_written(outcome, path) ==
    CASE outcome \in {"silent", "complains"} -> <<>>
      [] outcome = "trails" -> join(path) \o <<Newline, Newline>>
      [] OTHER -> join(path) \o <<Newline>>

\* what the body has written to standard error: nothing, or two lines
stderr_written(outcome, path) ==
    CASE outcome \in {"warns", "complains"} ->
             <<"w", Newline>> \o join(path) \o <<Newline>>
      [] OTHER -> <<>>

\* the lines appended for the text a buffer captured: none for no text, else
\* the pieces of the text without its trailing whitespace
captured_lines(kind, style, text) ==
    IF text = <<>> THEN <<>>
    ELSE LET pieces == split_lines(rstrip(text, Whitespace))
         IN  [i \in DOMAIN pieces |-> Line(kind, style, "", <<pieces[i]>>)]

\* the lines of the except clauses of _execute_click_command; reading
\* e.param.name of a MissingParameter without a parameter raises in turn
exception_lines(outcome) ==
    CASE outcome = "raises" -> <<Line("error", "red", "Error", <<>>)>>
      [] outcome = "missing" ->
             <<Line("error", "red", "Missing argument", <<>>)>>
      [] OTHER -> <<>>

\* what _execute_click_command does: the body runs once, the exception it
\* raises becomes a line of the sink, and what it wrote to standard output
\* follows, unless the except clause raised itself
execute_click_command(path, cmd, args) ==
    [invocation |-> [path |-> path, kwargs |-> invoke_kwargs(cmd, args)],
     lines |-> IF callback = "missing_unnamed" THEN <<>>
               ELSE exception_lines(callback)
                    \o captured_lines("stdout", "",
                                      stdout_written(callback, path))
                    \o captured_lines("stderr", "red",
                                      stderr_written(callback, path)),
     raised |-> callback = "missing_unnamed"]

\* append_to_history that loses the entry
append_to_history_lost(strings, buffer_text) == strings

\* Buffer.append_to_history: the text of the buffer becomes the newest
\* entry unless it is empty or already is the newest entry
append_to_history(strings, buffer_text) ==
    IF buffer_text /= <<>>
       /\ (strings = <<>> \/ strings[Len(strings)] /= buffer_text)
    THEN Append(strings, buffer_text)
    ELSE strings

command_exists(tree, cmd_name) ==
    cmd_name \in BuiltinNames \/ cmd_name \in DOMAIN tree

\* display_state that lets an invalid command of level required through
display_state_unblocked(exists, validation) ==
    IF ~exists THEN
        [should_block |-> FALSE, has_warning |-> FALSE, has_error |-> TRUE]
    ELSE IF validation.level = "optional" /\ should_warn(validation.result)
    THEN [should_block |-> FALSE, has_warning |-> TRUE, has_error |-> FALSE]
    ELSE [should_block |-> FALSE, has_warning |-> FALSE, has_error |-> FALSE]

\* display_state that blocks every command of level required
display_state_strict(exists, validation) ==
    IF ~exists THEN
        [should_block |-> FALSE, has_warning |-> FALSE, has_error |-> TRUE]
    ELSE IF validation.level = "required"
    THEN [should_block |-> TRUE, has_warning |-> FALSE, has_error |-> TRUE]
    ELSE IF validation.level = "optional" /\ should_warn(validation.result)
    THEN [should_block |-> FALSE, has_warning |-> TRUE, has_error |-> FALSE]
    ELSE [should_block |-> FALSE, has_warning |-> FALSE, has_error |-> FALSE]

\* display_state that blocks on the result alone, whatever the level
display_state_anylevel(exists, validation) ==
    IF ~exists THEN
        [should_block |-> FALSE, has_warning |-> FALSE, has_error |-> TRUE]
    ELSE IF should_block(validation.result)
    THEN [should_block |-> TRUE, has_warning |-> FALSE, has_error |-> TRUE]
    ELSE IF validation.level = "optional" /\ should_warn(validation.result)
    THEN [should_block |-> FALSE, has_warning |-> TRUE, has_error |-> FALSE]
    ELSE [should_block |-> FALSE, has_warning |-> FALSE, has_error |-> FALSE]

\* the display state the dispatcher derives from the validation
display_state(exists, validation) ==
    IF ~exists THEN
        [should_block |-> FALSE, has_warning |-> FALSE, has_error |-> TRUE]
    ELSE IF validation.level = "required" /\ should_block(validation.result)
    THEN [should_block |-> TRUE, has_warning |-> FALSE, has_error |-> TRUE]
    ELSE IF validation.level = "optional" /\ should_warn(validation.result)
    THEN [should_block |-> FALSE, has_warning |-> TRUE, has_error |-> FALSE]
    ELSE [should_block |-> FALSE, has_warning |-> FALSE, has_error |-> FALSE]

message_lines(validation, display) ==
    IF validation.result.message = NoMessage THEN <<>>
    ELSE IF display.should_block THEN
        <<Line("message", "red", validation.result.message.tag,
               <<validation.result.message.param,
                 validation.result.message.value>>)>>
    ELSE IF display.has_warning THEN
        <<Line("message", "yellow", validation.result.message.tag,
               <<validation.result.message.param,
                 validation.result.message.value>>)>>
    ELSE <<>>

\* dispatch that hands a subcommand the name it was reached by
dispatch_whole_args(tree, cmd_name, cmd_args) ==
    IF cmd_name \in DOMAIN tree THEN
        LET cmd == tree[cmd_name] IN
        IF cmd.isGroup THEN
            IF cmd_args /= <<>> /\ cmd_args[1] \in DOMAIN cmd.commands
            THEN [kind |-> "run", path |-> <<cmd_name, cmd_args[1]>>,
                  cmd |-> cmd.commands[cmd_args[1]], args |-> cmd_args]
            ELSE [kind |-> "group", path |-> <<cmd_name>>,
                  cmd |-> NoCommand, args |-> <<>>]
        ELSE [kind |-> "run", path |-> <<cmd_name>>, cmd |-> cmd,
              args |-> cmd_args]
    ELSE [kind |-> "unknown", path |-> <<cmd_name>>, cmd |-> NoCommand,
          args |-> <<>>]

\* the command the tokens resolve to for execution
dispatch(tree, cmd_name, cmd_args) ==
    IF cmd_name \in DOMAIN tree THEN
        LET cmd == tree[cmd_name] IN
        IF cmd.isGroup THEN
            IF cmd_args /= <<>> /\ cmd_args[1] \in DOMAIN cmd.commands
            THEN [kind |-> "run", path |-> <<cmd_name, cmd_args[1]>>,
                  cmd |-> cmd.commands[cmd_args[1]], args |-> Tail(cmd_args)]
            ELSE [kind |-> "group", path |-> <<cmd_name>>,
                  cmd |-> NoCommand, args |-> <<>>]
        ELSE [kind |-> "run", path |-> <<cmd_name>>, cmd |-> cmd,
              args |-> cmd_args]
    ELSE [kind |-> "unknown", path |-> <<cmd_name>>, cmd |-> NoCommand,
          args |-> <<>>]

\* the name under which the dispatcher asks for the validation
validation_path(cmd_name, cmd_args) == cmd_name

\* is_free_text that echoes a text without "/" in every mode
is_free_text_any_mode(text, agent) == ~StartsWith(text, <<Slash>>)

\* is_free_text that sends every text to the command handling
is_free_text_never(text, agent) == FALSE

\* the text is echoed: it does not start with "/" and agent mode is on
is_free_text(text, agent) == ~StartsWith(text, <<Slash>>) /\ agent

\* execute_command(text, input_buffer, enable_agent_mode, event), the buffer
\* holding buffer_text
execute_command(text, buffer_text, agent) ==
    LET slash == StartsWith(text, <<Slash>>)
        command == IF slash THEN Tail(text) ELSE text
        args == split(command)
    IN
    IF is_free_text(text, agent) THEN
        /\ output' = output \o <<Line("agent", "cyan", "", <<text>>), BlankLine>>
        /\ UNCHANGED <<history, invoked, exited, raised>>
    ELSE IF args = <<>> THEN
        UNCHANGED <<history, output, invoked, exited, raised>>
    ELSE
        LET cmd_name == args[1]
            cmd_args == Tail(args)
            exists == command_exists(cli, cmd_name)
            validation == validate_command(validation_rules,
                              validation_path(cmd_name, cmd_args), cmd_args)
            display == display_state(exists, validation)
            shown == format_command_display(cli, text, display.has_error,
                                            display.has_warning)
                     \o message_lines(validation, display)
            target == dispatch(cli, cmd_name,
                          cmd_args_after_validate_command(validation_rules,
                              validation_path(cmd_name, cmd_args), cmd_args))
        IN
        IF display.should_block THEN
            /\ output' = output \o shown \o <<BlankLine>>
            /\ UNCHANGED <<history, invoked, exited, raised>>
        ELSE IF cmd_name \in {w_quit, w_exit} THEN
            /\ history' = append_to_history(history, buffer_text)
            /\ output' = output \o shown \o <<Line("farewell", "", "", <<>>)>>
            /\ exited' = TRUE
            /\ UNCHANGED <<invoked, raised>>
        ELSE IF target.kind = "run" THEN
            LET run == execute_click_command(target.path, target.cmd,
                                             target.args)
            IN  /\ history' = append_to_history(history, buffer_text)
                /\ invoked' = Append(invoked, run.invocation)
                /\ output' = output \o shown \o run.lines
                             \o (IF run.raised THEN <<>> ELSE <<BlankLine>>)
                /\ raised' = run.raised
                /\ UNCHANGED exited
        ELSE IF target.kind = "group" THEN
            /\ history' = append_to_history(history, buffer_text)
            /\ output' = output \o shown \o <<BlankLine, BlankLine>>
            /\ UNCHANGED <<invoked, exited, raised>>
        ELSE
            /\ history' = append_to_history(history, buffer_text)
            /\ output' = output \o shown
                         \o <<Line("unknown", "red", "", <<cmd_name>>),
                              BlankLine>>
            /\ UNCHANGED <<invoked, exited, raised>>

----------------------------------------------------------------------------
(* More text: Python's str operations used by the key handlers *)

Max(a, b) == IF a >= b THEN a ELSE b
Min(a, b) == IF a <= b THEN a ELSE b

\* s[lo:hi] with Python's reading of negative and oversized indices
slice(s, lo, hi) ==
    LET n == Len(s)
        i == IF lo < 0 THEN Max(n + lo, 0) ELSE Min(lo, n)
        j == IF hi < 0 THEN Max(n + hi, 0) ELSE Min(hi, n)
    IN  IF i >= j THEN <<>> ELSE SubSeq(s, i + 1, j)

RECURSIVE lstrip(_, _)
lstrip(s, chars) ==
    IF s = <<>> THEN <<>>
    ELSE IF Head(s) \in chars THEN lstrip(Tail(s), chars) ELSE s

strip(s) == rstrip(lstrip(s, Whitespace), Whitespace)

\* pat in s
contains(s, pat) ==
    \E i \in 0..(Len(s) - Len(pat)) : SubSeq(s, i + 1, i + Len(pat)) = pat

\* s.replace(pat, "")
RECURSIVE remove_all(_, _)
remove_all(s, pat) ==
    IF Len(s) < Len(pat) THEN s
    ELSE IF StartsWith(s, pat) THEN remove_all(Drop(s, Len(pat)), pat)
    ELSE <<Head(s)>> \o remove_all(Tail(s), pat)

\* str.lower() on the letters of the model
lower_char(c) ==
    CASE c = "R" -> "r"
      [] c = "C" -> "c"
      [] OTHER -> c

lower(s) == [i \in DOMAIN s |-> lower_char(s[i])]

\* the characters of the model in code-point order
CharOrder ==
    <<"\n", " ", "-", "/", "<", ">", "C", "R", "_", "a", "b", "c", "d", "e",
      "f", "g", "h", "i", "j", "k", "l", "m", "n", "o", "p", "q", "r", "s",
      "t", "u", "v", "w", "x", "y", "z">>

ord(c) == CHOOSE i \in DOMAIN CharOrder : CharOrder[i] = c

RECURSIVE str_less(_, _)
str_less(a, b) ==
    IF b = <<>> THEN FALSE
    ELSE IF a = <<>> THEN TRUE
    ELSE IF Head(a) = Head(b) THEN str_less(Tail(a), Tail(b))
    ELSE ord(Head(a)) < ord(Head(b))

RECURSIVE sorted(_)
sorted(S) ==
    IF S = {} THEN <<>>
    ELSE LET m == CHOOSE x \in S : \A y \in S \ {x} : str_less(x, y)
         IN <<m>> \o sorted(S \ {m})

\* the class [a-z0-9_]
NameChars ==
    {"a", "b", "c", "d", "e", "f", "g", "h", "i", "j", "k", "l", "m", "n",
     "o", "p", "q", "r", "s", "t", "u", "v", "w", "x", "y", "z", "0", "1",
     "2", "3", "4", "5", "6", "7", "8", "9", "_"}

\* the end of the match of <[a-z0-9_]+> that starts at index i (0-based), or
\* -1 when there is none
match_end(text, i) ==
    LET closes == {j \in (i + 2)..Len(text) :
                      /\ text[j] = ">"
                      /\ j > i + 2
                      /\ \A k \in (i + 2)..(j - 1) : text[k] \in NameChars}
    IN  IF i < Len(text) /\ text[i + 1] = "<" /\ closes /= {}
        THEN CHOOSE j \in closes : \A h \in closes : j <= h
        ELSE -1

\* re.search("<[a-z0-9_]+>", text): the leftmost match, as span()
re_search(text) ==
    LET starts == {i \in 0..(Len(text) - 1) : match_end(text, i) /= -1} IN
    IF starts = {} THEN [found |-> FALSE, start |-> 0, end |-> 0]
    ELSE LET i == CHOOSE i \in starts : \A h \in starts : i <= h
         IN [found |-> TRUE, start |-> i, end |-> match_end(text, i)]

----------------------------------------------------------------------------
(* Completion engine: SlashCommandCompleter.get_completions *)

\* Completion that replaces nothing before the cursor
Completion_at_cursor(text, start_position) ==
    [text |-> text, start_position |-> 0]

Completion(text, start_position) ==
    [text |-> text, start_position |-> start_position]

\* candidates that compares the names with the prefix as they are written
candidates_same_case(names, prefix) ==
    LET hits == {n \in names : StartsWith(n, prefix)}
        order == sorted(hits)
    IN  [i \in DOMAIN order |-> Completion(order[i], 0 - Len(prefix))]

\* the names that start with the prefix, whatever the case, sorted
candidates(names, prefix) ==
    LET hits == {n \in names : StartsWith(lower(n), lower(prefix))}
        order == sorted(hits)
    IN  [i \in DOMAIN order |-> Completion(order[i], 0 - Len(prefix))]

\* option_flags of a command whose options are not offered
option_flags_none(cmd) == {}

option_flags(cmd) ==
    {opts(cmd.params[i].name) :
        i \in {j \in DOMAIN cmd.params : cmd.params[j].kind = "option"}}

\* the walk of the tokens against the tree: a token that names a child is a
\* consumed segment, the last token without whitespace after it is the prefix
RECURSIVE walk(_, _, _)
walk(node, tokens, trailing) ==
    IF ~node.isGroup THEN
        IF trailing \/ tokens = <<>> THEN candidates(option_flags(node), <<>>)
        ELSE candidates(option_flags(node), tokens[Len(tokens)])
    ELSE IF tokens = <<>> THEN candidates(DOMAIN node.commands, <<>>)
    ELSE IF Len(tokens) = 1 /\ ~trailing
    THEN candidates(DOMAIN node.commands, tokens[1])
    ELSE IF Head(tokens) \in DOMAIN node.commands
    THEN walk(node.commands[Head(tokens)], Tail(tokens), trailing)
    ELSE <<>>

\* get_completions without the guard for whitespace right after the slash
get_completions_unguarded(tree, text) ==
    IF ~StartsWith(text, <<Slash>>) THEN <<>>
    ELSE IF text = <<Slash>> THEN candidates(DOMAIN tree, <<>>)
    ELSE walk(Group(tree), split(Tail(text)),
              text[Len(text)] \in Whitespace)

get_completions(tree, text) ==
    IF ~StartsWith(text, <<Slash>>) THEN <<>>
    ELSE IF text = <<Slash>> THEN candidates(DOMAIN tree, <<>>)
    ELSE IF text[2] \in Whitespace THEN <<>>
    ELSE walk(Group(tree), split(Tail(text)),
              text[Len(text)] \in Whitespace)

----------------------------------------------------------------------------
(* The input buffer and the interaction state *)

NoColumn == 0 - 1

\* REPLState()
REPLState ==
    [completions |-> <<>>, selected_idx |-> 0, placeholder_active |-> FALSE,
     placeholder_start |-> 0, slash_command_active |-> FALSE,
     is_multiline |-> FALSE, menu_keep_visible |-> FALSE]

\* Buffer(history=FileHistory(...)) once the stored strings are loaded: the
\* working lines are the stored strings and the line being edited
Buffer(strings) ==
    [working_lines |-> strings \o << <<>> >>, working_index |-> Len(strings),
     cursor_position |-> 0, preferred_column |-> NoColumn]

\* Buffer.text
Text(b) == b.working_lines[b.working_index + 1]

Session(b, s) == [buffer |-> b, state |-> s]

\* Buffer.cursor_position = value: kept within the text
set_cursor_position(ui, value) ==
    LET pos == Max(0, Min(value, Len(Text(ui.buffer)))) IN
    IF pos = ui.buffer.cursor_position THEN ui
    ELSE [ui EXCEPT !.buffer.cursor_position = pos,
                    !.buffer.preferred_column = NoColumn]

\* on_text_changed that tracks the flags and leaves the completions alone
on_text_changed_flags(tree, ui) ==
    LET text == Text(ui.buffer) IN
    [ui EXCEPT
       !.state.slash_command_active = StartsWith(text, <<Slash>>),
       !.state.is_multiline = \E i \in DOMAIN text : text[i] = Newline]

RECURSIVE on_text_changed(_, _)
RECURSIVE set_text(_, _, _)
RECURSIVE set_document(_, _, _, _)

\* the handler the buffer calls after every change of its text
on_text_changed(tree, ui) ==
    LET text == Text(ui.buffer)
        tracked == [ui EXCEPT
                      !.state.slash_command_active = StartsWith(text, <<Slash>>),
                      !.state.is_multiline =
                          \E i \in DOMAIN text : text[i] = Newline]
        cursor_pos == ui.buffer.cursor_position
        \* the placeholder taken out of the buffer
        removed(placeholder) ==
            LET new_text == slice(text, 0, placeholder.start)
                            \o Drop(text, Min(placeholder.end + 6, Len(text)))
                new_cursor == IF cursor_pos > placeholder.start
                              THEN cursor_pos - 6 ELSE cursor_pos
            IN  [set_cursor_position(set_text(tree, tracked, new_text),
                                     new_cursor)
                 EXCEPT !.state.placeholder_active = FALSE]
        listed(completions) ==
            [tracked EXCEPT
               !.state.completions = completions,
               !.state.selected_idx = IF completions /= <<>> THEN 0 ELSE 0 - 1,
               !.state.menu_keep_visible =
                   IF completions /= <<>> THEN TRUE ELSE @]
        changed(placeholder) ==
            IF /\ ui.state.placeholder_active
               /\ placeholder.found
               /\ cursor_pos > ui.state.placeholder_start
            THEN removed(placeholder)
            ELSE IF StartsWith(text, <<Slash>>)
            THEN listed(get_completions(tree, text))
            ELSE [tracked EXCEPT
                    !.state.completions = <<>>,
                    !.state.selected_idx = 0 - 1,
                    !.state.menu_keep_visible = FALSE]
    IN  changed(re_search(text))

\* Buffer.text = value: the cursor is pulled inside the new text, and the
\* handler runs when the text changed
set_text(tree, ui, value) ==
    LET b == ui.buffer
        cursor == Min(b.cursor_position, Len(value))
        stored == [ui EXCEPT
                     !.buffer.working_lines[b.working_index + 1] = value,
                     !.buffer.cursor_position = cursor,
                     !.buffer.preferred_column =
                         IF cursor /= b.cursor_position \/ Text(b) /= value
                         THEN NoColumn ELSE @]
    IN  IF Text(b) /= value THEN on_text_changed(tree, stored) ELSE stored

\* Buffer.document = Document(text, cursor_position): both are stored before
\* the handler runs
set_document(tree, ui, value, cursor_position) ==
    LET b == ui.buffer
        stored == [ui EXCEPT
                     !.buffer.working_lines[b.working_index + 1] = value,
                     !.buffer.cursor_position = cursor_position,
                     !.buffer.preferred_column =
                         IF cursor_position /= b.cursor_position
                            \/ Text(b) /= value
                         THEN NoColumn ELSE @]
    IN  IF Text(b) /= value THEN on_text_changed(tree, stored) ELSE stored

\* Buffer.insert_text(data)
insert_text(tree, ui, data) ==
    LET text == Text(ui.buffer)
        cpos == ui.buffer.cursor_position
    IN  set_document(tree, ui,
                     slice(text, 0, cpos) \o data \o Drop(text, cpos),
                     cpos + Len(data))

\* Buffer.delete_before_cursor(count)
delete_before_cursor(tree, ui, count) ==
    LET text == Text(ui.buffer)
        cpos == ui.buffer.cursor_position
        deleted == slice(text, cpos - count, cpos)
    IN  IF cpos > 0
        THEN set_document(tree, ui,
                          slice(text, 0, cpos - count) \o Drop(text, cpos),
                          cpos - Len(deleted))
        ELSE ui

\* Document: the row and the column of an index, and the index of a row and
\* a column
line_starts(text) ==
    {0} \cup {i \in 1..Len(text) : text[i] = Newline}

row_of(text, pos) ==
    Cardinality({i \in line_starts(text) : i /= 0 /\ i <= pos})

row_start(text, row) ==
    CHOOSE i \in line_starts(text) :
        Cardinality({j \in line_starts(text) : j < i}) = row

row_length(text, row) ==
    LET from == row_start(text, row)
        ends == {i \in (from + 1)..Len(text) : text[i] = Newline}
    IN  IF ends = {} THEN Len(text) - from
        ELSE (CHOOSE i \in ends : \A h \in ends : i <= h) - 1 - from

col_of(text, pos) == pos - row_start(text, row_of(text, pos))

translate_row_col_to_index(text, row, col) ==
    LET last_row == Cardinality(line_starts(text)) - 1
        r == Max(0, Min(row, last_row))
    IN  Max(0, Min(row_start(text, r) + Max(0, Min(col, row_length(text, r))),
                   Len(text)))

\* Buffer.cursor_up() and Buffer.cursor_down(): one row, the column kept
cursor_vertical(ui, rows) ==
    LET b == ui.buffer
        text == Text(b)
        original_column ==
            IF b.preferred_column > 0 THEN b.preferred_column
            ELSE col_of(text, b.cursor_position)
        target == translate_row_col_to_index(text,
                      Max(0, row_of(text, b.cursor_position) + rows),
                      original_column)
        moved == set_cursor_position(ui, target)
    IN  [moved EXCEPT !.buffer.preferred_column = original_column]

cursor_up(ui) == cursor_vertical(ui, 0 - 1)
cursor_down(ui) == cursor_vertical(ui, 1)

\* Buffer.working_index = value: the cursor goes to 0 and the handler runs
set_working_index(tree, ui, value) ==
    IF value = ui.buffer.working_index THEN ui
    ELSE on_text_changed(tree,
             [ui EXCEPT !.buffer.working_index = value,
                        !.buffer.cursor_position = 0,
                        !.buffer.preferred_column = NoColumn])

\* Buffer.history_backward(): the line before, the cursor at its end
history_backward(tree, ui) ==
    LET at_end(found) == set_cursor_position(found, Len(Text(found.buffer)))
    IN  IF ui.buffer.working_index = 0 THEN ui
        ELSE at_end(set_working_index(tree, ui, ui.buffer.working_index - 1))

\* Buffer.history_forward(): the line after, the cursor at the end of its
\* first row
history_forward(tree, ui) ==
    LET at_end(found) ==
            set_cursor_position(found, row_length(Text(found.buffer), 0))
    IN  IF ui.buffer.working_index + 1 >= Len(ui.buffer.working_lines) THEN ui
        ELSE at_end(set_working_index(tree, ui, ui.buffer.working_index + 1))

----------------------------------------------------------------------------
(* Key handlers: KeyBindingManager *)

\* "<" + param.name + ">" for the first argument declared, NoWord for None
get_argument_placeholder_text(tree, cmd_name, subcmd_name) ==
    IF cmd_name \notin DOMAIN tree THEN NoWord
    ELSE
        LET top == tree[cmd_name]
            missing == /\ subcmd_name /= NoWord
                       /\ top.isGroup
                       /\ subcmd_name \notin DOMAIN top.commands
            cmd == IF subcmd_name /= NoWord /\ top.isGroup /\ ~missing
                   THEN top.commands[subcmd_name] ELSE top
            arguments == Arguments(cmd.params)
        IN  IF missing \/ arguments = <<>> THEN NoWord
            ELSE <<"<">> \o arguments[1].name \o <<">">>

\* insert " " + placeholder and put the cursor on its "<"
insert_placeholder(tree, ui, arg_placeholder) ==
    LET placed(inserted) ==
            LET cursor_pos == inserted.buffer.cursor_position
                              - Len(arg_placeholder)
            IN  [set_cursor_position(inserted, cursor_pos)
                 EXCEPT !.state.placeholder_active = TRUE,
                        !.state.placeholder_start = cursor_pos]
    IN  placed(insert_text(tree, ui, <<Space>> \o arg_placeholder))

\* handle_escape that leaves the placeholder flag as it was
handle_escape_keeps(tree, ui) ==
    LET cleared == set_cursor_position(set_text(tree, ui, <<>>), 0) IN
    [cleared EXCEPT !.state.menu_keep_visible = FALSE]

handle_escape(tree, ui) ==
    LET cleared == set_cursor_position(set_text(tree, ui, <<>>), 0) IN
    [cleared EXCEPT !.state.placeholder_active = FALSE,
                    !.state.menu_keep_visible = FALSE]

handle_ctrl_j(tree, ui) == insert_text(tree, ui, <<Newline>>)

\* handle_up that looks at the cursor before it looks at the rows
handle_up_history_first(tree, ui) ==
    IF ui.state.slash_command_active /\ Len(ui.state.completions) > 1 THEN
        IF ui.state.selected_idx > 0
        THEN [ui EXCEPT !.state.selected_idx = @ - 1] ELSE ui
    ELSE IF ui.buffer.cursor_position = 0 THEN history_backward(tree, ui)
    ELSE IF ui.state.is_multiline THEN cursor_up(ui)
    ELSE set_cursor_position(ui, 0)

handle_up(tree, ui) ==
    IF ui.state.slash_command_active /\ Len(ui.state.completions) > 1 THEN
        IF ui.state.selected_idx > 0
        THEN [ui EXCEPT !.state.selected_idx = @ - 1] ELSE ui
    ELSE IF ui.state.is_multiline THEN cursor_up(ui)
    ELSE IF ui.buffer.cursor_position = 0 THEN history_backward(tree, ui)
    ELSE set_cursor_position(ui, 0)

\* handle_down that goes on past the last completion
handle_down_unbounded(tree, ui) ==
    IF ui.state.slash_command_active /\ Len(ui.state.completions) > 1 THEN
        [ui EXCEPT !.state.selected_idx = @ + 1]
    ELSE IF ui.state.is_multiline THEN cursor_down(ui)
    ELSE IF ui.buffer.cursor_position = 0 THEN history_forward(tree, ui)
    ELSE set_cursor_position(ui, 0)

\* handle_down that wraps around at the last completion
handle_down_wrapping(tree, ui) ==
    IF ui.state.slash_command_active /\ Len(ui.state.completions) > 1 THEN
        IF ui.state.selected_idx < Len(ui.state.completions) - 1
        THEN [ui EXCEPT !.state.selected_idx = @ + 1]
        ELSE [ui EXCEPT !.state.selected_idx = 0]
    ELSE IF ui.state.is_multiline THEN cursor_down(ui)
    ELSE IF ui.buffer.cursor_position = 0 THEN history_forward(tree, ui)
    ELSE set_cursor_position(ui, 0)

handle_down(tree, ui) ==
    IF ui.state.slash_command_active /\ Len(ui.state.completions) > 1 THEN
        IF ui.state.selected_idx < Len(ui.state.completions) - 1
        THEN [ui EXCEPT !.state.selected_idx = @ + 1] ELSE ui
    ELSE IF ui.state.is_multiline THEN cursor_down(ui)
    ELSE IF ui.buffer.cursor_position = 0 THEN history_forward(tree, ui)
    ELSE set_cursor_position(ui, 0)

\* handle_tab that treats a group like any other command
handle_tab_bare(tree, ui) ==
    IF ui.state.completions = <<>> \/ ui.state.selected_idx < 0 THEN ui
    ELSE
        LET comp == ui.state.completions[ui.state.selected_idx + 1]
            hinted(inserted) ==
                LET parts == split(lstrip(Text(inserted.buffer), {Slash}))
                    cmd_name == IF parts /= <<>> THEN parts[1] ELSE NoWord
                    subcmd_name == IF Len(parts) > 1 THEN parts[2] ELSE NoWord
                    arg_placeholder ==
                        get_argument_placeholder_text(tree, cmd_name,
                                                      subcmd_name)
                IN  IF arg_placeholder /= NoWord
                    THEN insert_placeholder(tree, inserted, arg_placeholder)
                    ELSE inserted
        IN  hinted(insert_text(tree,
                               IF comp.start_position /= 0
                               THEN delete_before_cursor(tree, ui,
                                        0 - comp.start_position)
                               ELSE ui,
                               comp.text))

handle_tab(tree, ui) ==
    IF ui.state.completions = <<>> \/ ui.state.selected_idx < 0 THEN ui
    ELSE
        LET comp == ui.state.completions[ui.state.selected_idx + 1]
            \* after the completion is in the buffer: a group without a
            \* subcommand gets a space, a command with an argument gets its
            \* placeholder
            hinted(inserted) ==
                LET parts == split(lstrip(Text(inserted.buffer), {Slash}))
                    cmd_name == IF parts /= <<>> THEN parts[1] ELSE NoWord
                    subcmd_name == IF Len(parts) > 1 THEN parts[2] ELSE NoWord
                    is_group ==
                        cmd_name \in DOMAIN tree /\ tree[cmd_name].isGroup
                    arg_placeholder ==
                        get_argument_placeholder_text(tree, cmd_name,
                                                      subcmd_name)
                IN  IF is_group /\ subcmd_name = NoWord
                    THEN insert_text(tree, inserted, <<Space>>)
                    ELSE IF arg_placeholder /= NoWord
                    THEN insert_placeholder(tree, inserted, arg_placeholder)
                    ELSE inserted
        IN  hinted(insert_text(tree,
                               IF comp.start_position /= 0
                               THEN delete_before_cursor(tree, ui,
                                        0 - comp.start_position)
                               ELSE ui,
                               comp.text))

handle_space(tree, ui) ==
    LET text == strip(Text(ui.buffer))
        cmd_name == Tail(text)
        parts == split(lstrip(text, {Slash}))
    IN  IF /\ StartsWith(text, <<Slash>>)
           /\ ~contains(text, <<Space>>)
           /\ cmd_name \in DOMAIN tree
        THEN
            IF tree[cmd_name].isGroup THEN insert_text(tree, ui, <<Space>>)
            ELSE LET arg_placeholder ==
                         get_argument_placeholder_text(tree, cmd_name, NoWord)
                 IN IF arg_placeholder /= NoWord
                    THEN insert_placeholder(tree, ui, arg_placeholder)
                    ELSE insert_text(tree, ui, <<Space>>)
        ELSE IF /\ Len(parts) = 2
                /\ parts[1] \in DOMAIN tree
                /\ tree[parts[1]].isGroup
                /\ parts[2] \in DOMAIN tree[parts[1]].commands
                /\ get_argument_placeholder_text(tree, parts[1], parts[2])
                       /= NoWord
        THEN insert_placeholder(tree, ui,
                 get_argument_placeholder_text(tree, parts[1], parts[2]))
        ELSE insert_text(tree, ui, <<Space>>)

placeholder_text == <<"<", "t", "e", "x", "t", ">">>

\* submitted_text that does not complete a bare slash
submitted_text_no_bare(ui) ==
    LET stripped == strip(Text(ui.buffer))
        text == IF contains(stripped, placeholder_text)
                THEN remove_all(remove_all(stripped,
                                           <<Space>> \o placeholder_text),
                                placeholder_text)
                ELSE stripped
    IN  IF /\ ui.state.completions /= <<>>
           /\ ui.state.selected_idx >= 0
           /\ StartsWith(text, <<Slash>>)
        THEN
            LET comp == ui.state.completions[ui.state.selected_idx + 1]
                first == TakeWord(text)
                first_word == Tail(first)
                rest_of_text == SkipWs(Drop(text, Len(first)))
                should_autocomplete ==
                    /\ first_word /= <<>>
                    /\ first_word /= comp.text
                    /\ StartsWith(comp.text, first_word)
            IN  IF should_autocomplete
                THEN <<Slash>> \o comp.text
                     \o (IF rest_of_text /= <<>>
                         THEN <<Space>> \o rest_of_text ELSE <<>>)
                ELSE text
        ELSE text

\* submitted_text that keeps the whitespace around the text
submitted_text_untrimmed(ui) == Text(ui.buffer)

\* the text Enter submits: the placeholder "<text>" taken out, then the
\* selected completion in place of a first word it continues
submitted_text(ui) ==
    LET stripped == strip(Text(ui.buffer))
        text == IF contains(stripped, placeholder_text)
                THEN remove_all(remove_all(stripped,
                                           <<Space>> \o placeholder_text),
                                placeholder_text)
                ELSE stripped
    IN  IF /\ ui.state.completions /= <<>>
           /\ ui.state.selected_idx >= 0
           /\ StartsWith(text, <<Slash>>)
        THEN
            LET comp == ui.state.completions[ui.state.selected_idx + 1]
                first == TakeWord(text)
                first_word == Tail(first)
                rest_of_text == SkipWs(Drop(text, Len(first)))
                should_autocomplete ==
                    \/ text = <<Slash>>
                    \/ /\ first_word /= <<>>
                       /\ first_word /= comp.text
                       /\ StartsWith(comp.text, first_word)
            IN  IF should_autocomplete
                THEN <<Slash>> \o comp.text
                     \o (IF rest_of_text /= <<>>
                         THEN <<Space>> \o rest_of_text ELSE <<>>)
                ELSE text
        ELSE text

\* the buffer cleared and the state reset, before the text is executed
clear_input(tree, ui) ==
    LET cleared == set_cursor_position(set_text(tree, ui, <<>>), 0) IN
    [cleared EXCEPT !.state.placeholder_active = FALSE,
                    !.state.menu_keep_visible = FALSE,
                    !.state.completions = <<>>,
                    !.state.selected_idx = 0]

----------------------------------------------------------------------------
(* Inputs *)

\* argument tokens: a value of the choice set, a value outside it, and the
\* flags of the options a command may declare
Tokens == {tok_a, tok_z} \cup {opts(ParamNames[i]) : i \in 1..MaxParams}

ArgLists == UNION {[1..n -> Tokens] : n \in 0..MaxArgs}

\* what the user names: a command, a group, a subcommand, a built-in, a
\* name that is not registered
Heads == {<<w_run>>, <<w_cfg>>, <<w_cfg, w_set>>, <<w_zz>>, <<w_quit>>}

Texts ==
    {pre \o join(h \o a) : pre \in {<<>>, <<Slash>>}, h \in Heads,
                           a \in ArgLists}
    \cup {<<>>, <<Slash>>}

Paths == {w_run, w_cfg, subcmd_path(w_cfg, w_set), w_zz}

\* what the history file holds when the session starts
StoredHistories == {<<>>, <<<<Slash>> \o w_run>>}

\* the trees of the sessions at the keyboard: the commands declare nothing,
\* one required argument (named p or text), or an option before an argument
Param(name, kind, required) ==
    [name |-> name, kind |-> kind, required |-> required, nargs |-> 1,
     type |-> "str"]

w_text == <<"t", "e", "x", "t">>

KeyParamLists ==
    {<<>>,
     <<Param(ParamNames[1], "argument", TRUE)>>,
     <<Param(w_text, "argument", TRUE)>>,
     <<Param(ParamNames[1], "option", FALSE),
       Param(ParamNames[2], "argument", FALSE)>>}

w_se == <<"s", "e">>

\* a group whose name begins the name of its subcommand
PrefixTree == [n \in {w_se} |-> Group([m \in {w_set} |-> Leaf(<<>>)])]

KeyTrees == {Tree(ps) : ps \in KeyParamLists} \cup {PrefixTree}

\* the sessions at the keyboard: a first session in agent mode, and a later
\* one over a stored history
KeySessions ==
    {[history |-> <<>>, enable_agent_mode |-> TRUE],
     [history |-> <<<<Slash>> \o w_run>>, enable_agent_mode |-> FALSE]}

\* what the user types or pastes in one go
TypedTexts ==
    {<<Slash>>, <<Slash, "R">>, <<Slash>> \o w_run,
     <<Slash>> \o w_cfg \o <<Space>>,
     <<Slash>> \o w_se \o <<Space, "s">>, <<"x">>}

\* the trees of the sessions at the dispatcher: the commands declare
\* nothing or one required argument, and a tree that registers a command
\* under the built-in name quit
QuitTree ==
    [n \in {w_run, w_cfg, w_quit} |->
        IF n = w_quit THEN Leaf(<<Param(ParamNames[1], "argument", TRUE)>>)
        ELSE Tree(<<>>)[n]]

SessionTrees ==
    {Tree(<<>>), Tree(<<Param(ParamNames[1], "argument", TRUE)>>), QuitTree}

\* what the user submits in such a session
SessionTexts ==
    {<<Slash>> \o w_run, <<Slash>> \o join(<<w_run, tok_a>>),
     <<Slash>> \o join(<<w_cfg, w_set, tok_a>>), <<Slash>> \o w_quit,
     w_exit, <<"x">>, <<Slash>> \o w_zz}

w_rm == <<"r", "m">>

\* top-level commands that share a first letter
FlatTree == [n \in {w_run, w_rm, w_cfg} |-> Leaf(<<>>)]

\* a command whose options are declared out of order
OptionsTree ==
    Tree(<<Param(ParamNames[2], "option", FALSE),
           Param(ParamNames[1], "option", FALSE)>>)

CompleteTrees == KeyTrees \cup {FlatTree, OptionsTree}

\* what the user has typed of a token: part of a name or of a flag, as
\* typed or with a capital first letter, or something that begins none
TokenParts ==
    LET Prefixes(w) == {SubSeq(w, 1, n) : n \in 1..Len(w)}
        upper_char(c) == CASE c = "r" -> "R"
                           [] c = "c" -> "C"
                           [] OTHER -> c
        Variants(p) == {p, <<upper_char(Head(p))>> \o Tail(p)}
    IN  UNION {Variants(p) :
            p \in UNION {Prefixes(w) :
                w \in {w_run, w_rm, w_cfg, w_set, w_zz,
                       opts(ParamNames[1]), opts(ParamNames[2])}}}

\* the texts given to the completer: tokens after a slash, with or without
\* whitespace after them, and texts with something before the slash
CompleteTexts ==
    {lead \o <<Slash>> \o join(toks) \o trail :
        lead \in {<<>>, <<Space>>, <<"x">>},
        toks \in UNION {[1..n -> TokenParts] : n \in 0..MaxTokens},
        trail \in {<<>>, <<Space>>}}
    \cup {<<>>, w_run}

----------------------------------------------------------------------------
(* The session *)

NoValidation ==
    [result |-> ValidationResult("valid", NoMessage), level |-> "None"]

Init ==
    /\ \E ps \in ParamLists : cli = Tree(ps)
    /\ validation_rules = introspect_commands(cli)
    /\ history \in StoredHistories
    /\ output = <<>>
    /\ invoked = <<>>
    /\ exited = FALSE
    /\ enable_agent_mode \in BOOLEAN
    /\ last = [op |-> "none", text |-> <<>>, path |-> NoWord, args |-> <<>>,
               validation |-> NoValidation, nhistory |-> Len(history),
               noutput |-> 0, ninvoked |-> 0]
    /\ input_buffer = Buffer(history)
    /\ state = REPLState
    /\ before = Session(input_buffer, state)
    /\ keys = 0
    /\ callback = "returns"
    /\ raised = FALSE

\* the user submits the text of the input buffer
Submit ==
    /\ ~exited
    /\ ~raised
    /\ last.op = "none"
    /\ \E text \in Texts :
        /\ execute_command(text, text, enable_agent_mode)
        /\ last' = [op |-> "submit", text |-> text, path |-> NoWord,
                    args |-> <<>>, validation |-> NoValidation,
                    nhistory |-> Len(history), noutput |-> Len(output),
                    ninvoked |-> Len(invoked)]
    /\ UNCHANGED <<cli, validation_rules, enable_agent_mode, input_buffer,
                   state, before, keys, callback>>

\* a caller asks the validation manager about a path and an argument list
Validate ==
    /\ last.op = "none"
    /\ \E cmd_path \in Paths, cmd_args \in ArgLists :
        last' = [op |-> "validate", text |-> <<>>, path |-> cmd_path,
                 args |-> cmd_args,
                 validation |-> validate_command(validation_rules, cmd_path,
                                                 cmd_args),
                 nhistory |-> Len(history), noutput |-> Len(output),
                 ninvoked |-> Len(invoked),
                 left |-> cmd_args_after_validate_command(validation_rules,
                              cmd_path, cmd_args)]
    /\ UNCHANGED <<cli, validation_rules, history, output, invoked, exited,
                   enable_agent_mode, input_buffer, state, before, keys,
                   callback, raised>>

\* the REPL asks its own validator about a path and an argument list
ValidateAuto ==
    /\ last.op = "none"
    /\ \E cmd_path \in Paths, cmd_args \in ArgLists :
        last' = [op |-> "validate_auto", text |-> <<>>, path |-> cmd_path,
                 args |-> cmd_args,
                 validation |-> validate_command(validation_rules, cmd_path,
                                                 cmd_args),
                 nhistory |-> Len(history), noutput |-> Len(output),
                 ninvoked |-> Len(invoked),
                 left |-> cmd_args_after_validate_command_auto(
                              validation_rules, cmd_path, cmd_args)]
    /\ UNCHANGED <<cli, validation_rules, history, output, invoked, exited,
                   enable_agent_mode, input_buffer, state, before, keys,
                   callback, raised>>

\* the session: submissions to the dispatcher
Next == Submit

Spec == Init /\ [][Next]_vars

\* the validators on their own: one call on the rules of the tree
NextValidate == Validate \/ ValidateAuto

SpecValidate == Init /\ [][NextValidate]_vars

\* the session at the dispatcher: one submission after the other, the
\* bodies of the commands behaving in one of the ways of Callbacks
InitSession ==
    /\ cli \in SessionTrees
    /\ validation_rules = introspect_commands(cli)
    /\ history \in StoredHistories
    /\ output = <<>>
    /\ invoked = <<>>
    /\ exited = FALSE
    /\ enable_agent_mode \in BOOLEAN
    /\ last = [op |-> "none", text |-> <<>>, path |-> NoWord, args |-> <<>>,
               validation |-> NoValidation, nhistory |-> Len(history),
               noutput |-> 0, ninvoked |-> 0]
    /\ input_buffer = Buffer(history)
    /\ state = REPLState
    /\ before = Session(input_buffer, state)
    /\ keys = 0
    /\ callback \in Callbacks
    /\ raised = FALSE

\* the next submission: none after the application was told to exit or an
\* exception left the key handler
SubmitNext ==
    /\ ~exited
    /\ ~raised
    /\ keys < MaxSubmits
    /\ \E text \in SessionTexts :
        /\ execute_command(text, text, enable_agent_mode)
        /\ last' = [op |-> "submit", text |-> text, path |-> NoWord,
                    args |-> <<>>, validation |-> NoValidation,
                    nhistory |-> Len(history), noutput |-> Len(output),
                    ninvoked |-> Len(invoked)]
    /\ keys' = keys + 1
    /\ UNCHANGED <<cli, validation_rules, enable_agent_mode, input_buffer,
                   state, before, callback>>

NextSession == SubmitNext

SpecSession == InitSession /\ [][NextSession]_vars

\* the completer over a tree
InitComplete ==
    /\ cli \in CompleteTrees
    /\ validation_rules = introspect_commands(cli)
    /\ history = <<>>
    /\ output = <<>>
    /\ invoked = <<>>
    /\ exited = FALSE
    /\ enable_agent_mode = FALSE
    /\ last = [op |-> "none", text |-> <<>>, completions |-> <<>>]
    /\ input_buffer = Buffer(history)
    /\ state = REPLState
    /\ before = Session(input_buffer, state)
    /\ keys = 0
    /\ callback = "returns"
    /\ raised = FALSE

\* one call of get_completions
GetCompletions ==
    /\ last.op = "none"
    /\ \E text \in CompleteTexts :
        last' = [op |-> "get_completions", text |-> text,
                 completions |-> get_completions(cli, text)]
    /\ UNCHANGED <<cli, validation_rules, history, output, invoked, exited,
                   enable_agent_mode, input_buffer, state, before, keys,
                   callback, raised>>

NextComplete == GetCompletions

SpecComplete == InitComplete /\ [][NextComplete]_vars

\* the session at the keyboard: an empty buffer over the stored history
InitKeys ==
    /\ cli \in KeyTrees
    /\ validation_rules = introspect_commands(cli)
    /\ \E session \in KeySessions :
          /\ history = session.history
          /\ enable_agent_mode = session.enable_agent_mode
    /\ output = <<>>
    /\ invoked = <<>>
    /\ exited = FALSE
    /\ last = [op |-> "none", text |-> <<>>, path |-> NoWord, args |-> <<>>,
               validation |-> NoValidation, nhistory |-> Len(history),
               noutput |-> 0, ninvoked |-> 0]
    /\ input_buffer = Buffer(history)
    /\ state = REPLState
    /\ before = Session(input_buffer, state)
    /\ keys = 0
    /\ callback = "returns"
    /\ raised = FALSE

UI == Session(input_buffer, state)

\* what every key event records
Handled(op, text, ui) ==
    /\ input_buffer' = ui.buffer
    /\ state' = ui.state
    /\ before' = UI
    /\ keys' = keys + 1
    /\ last' = [op |-> op, text |-> text, path |-> NoWord, args |-> <<>>,
                validation |-> NoValidation, nhistory |-> Len(history),
                noutput |-> Len(output), ninvoked |-> Len(invoked)]
    /\ UNCHANGED <<cli, validation_rules, enable_agent_mode, callback>>

KeyReady == ~exited /\ ~raised /\ keys < MaxKeys

\* characters typed or pasted at the cursor
InsertText ==
    /\ KeyReady
    /\ \E data \in TypedTexts :
          /\ Len(Text(input_buffer)) + Len(data) <= MaxText
          /\ Handled("insert", data, insert_text(cli, UI, data))
    /\ UNCHANGED <<history, output, invoked, exited, raised>>

\* the cursor moved by Left, Right, Home or End
MoveCursor ==
    /\ KeyReady
    /\ \E pos \in {0, input_buffer.cursor_position - 1,
                   input_buffer.cursor_position + 1,
                   Len(Text(input_buffer))} :
          /\ pos \in 0..Len(Text(input_buffer))
          /\ pos /= input_buffer.cursor_position
          /\ Handled("move", <<>>, set_cursor_position(UI, pos))
    /\ UNCHANGED <<history, output, invoked, exited, raised>>

Escape ==
    /\ KeyReady
    /\ Handled("escape", <<>>, handle_escape(cli, UI))
    /\ UNCHANGED <<history, output, invoked, exited, raised>>

CtrlJ ==
    /\ KeyReady
    /\ Handled("ctrl_j", <<>>, handle_ctrl_j(cli, UI))
    /\ UNCHANGED <<history, output, invoked, exited, raised>>

Up ==
    /\ KeyReady
    /\ Handled("up", <<>>, handle_up(cli, UI))
    /\ UNCHANGED <<history, output, invoked, exited, raised>>

Down ==
    /\ KeyReady
    /\ Handled("down", <<>>, handle_down(cli, UI))
    /\ UNCHANGED <<history, output, invoked, exited, raised>>

Tab ==
    /\ KeyReady
    /\ Handled("tab", <<>>, handle_tab(cli, UI))
    /\ UNCHANGED <<history, output, invoked, exited, raised>>

SpaceKey ==
    /\ KeyReady
    /\ Handled("space", <<>>, handle_space(cli, UI))
    /\ UNCHANGED <<history, output, invoked, exited, raised>>

\* Enter: nothing happens on an empty text; otherwise the buffer is cleared,
\* then the text goes to the dispatcher together with the buffer
Enter ==
    /\ KeyReady
    /\ LET text == submitted_text(UI) IN
       IF text = <<>> THEN
           /\ Handled("enter", text, UI)
           /\ UNCHANGED <<history, output, invoked, exited, raised>>
       ELSE
           LET cleared == clear_input(cli, UI) IN
           /\ Handled("enter", text, cleared)
           /\ execute_command(text, Text(cleared.buffer), enable_agent_mode)

NextKeys ==
    \/ InsertText
    \/ MoveCursor
    \/ Escape
    \/ CtrlJ
    \/ Up
    \/ Down
    \/ Tab
    \/ SpaceKey
    \/ Enter

SpecKeys == InitKeys /\ [][NextKeys]_vars

----------------------------------------------------------------------------
(* What the last call did *)

Submitted == last.op = "submit"
Validated == last.op = "validate"

NewOutput == SubSeq(output, last.noutput + 1, Len(output))
NewInvoked == SubSeq(invoked, last.ninvoked + 1, Len(invoked))
HistoryUnchanged == Len(history) = last.nhistory
Recorded ==
    /\ history /= <<>>
    /\ history[Len(history)] = last.text
    /\ Len(history) \in {last.nhistory, last.nhistory + 1}

\* the tokens of the submitted text
SubmittedWords ==
    split(IF StartsWith(last.text, <<Slash>>) THEN Tail(last.text)
          ELSE last.text)

\* the submission reached the dispatcher's command handling
Dispatched ==
    /\ Submitted
    /\ StartsWith(last.text, <<Slash>>) \/ ~enable_agent_mode
    /\ SubmittedWords /= <<>>

SubmittedName == SubmittedWords[1]
SubmittedArgs == Tail(SubmittedWords)
SubmittedTarget == dispatch(cli, SubmittedName, SubmittedArgs)

\* what the validator answered the dispatcher
SubmittedValidation ==
    validate_command(validation_rules, SubmittedName, SubmittedArgs)

HasLine(lines, kind) == \E i \in DOMAIN lines : lines[i].kind = kind

\* the parameters declared by the command a rule path names
PathParams(path) ==
    IF path = w_run THEN cli[w_run].params
    ELSE IF path = subcmd_path(w_cfg, w_set)
    THEN cli[w_cfg].commands[w_set].params
    ELSE <<>>

HasRule(path) == path \in {w_run, subcmd_path(w_cfg, w_set)}

RequiredArguments(params) ==
    {i \in DOMAIN params : params[i].kind = "argument" /\ params[i].required}

PlainToken(t) == ~IsOptionToken(t)

----------------------------------------------------------------------------
(* Claims *)

\* C1: no submission executes an invalid command: when the command or
\* subcommand a submission reaches has a rule of level required and the
\* arguments given to it fail to bind, its body is not invoked, also when it
\* is reached as /group subcommand args
C1_InvalidNeverExecuted ==
    (/\ Dispatched
     /\ SubmittedTarget.kind = "run"
     /\ extract_validation_rule(SubmittedTarget.cmd).level = "required"
     /\ ~parse_args(SubmittedTarget.cmd, SubmittedTarget.args).ok)
    => NewInvoked = <<>>

\* C2: when the command exists and the validator answers invalid at level
\* required, the dispatcher blocks: no body is invoked, the history is not
\* touched, the session goes on, and the sink receives the echo (the command
\* line and at most one continuation line), the validation message in error
\* styling and a blank line, nothing else
C2_BlockedOnlyEchoes ==
    (/\ Dispatched
     /\ command_exists(cli, SubmittedName)
     /\ SubmittedValidation.level = "required"
     /\ SubmittedValidation.result.status = "invalid")
    => /\ NewInvoked = <<>>
       /\ HistoryUnchanged
       /\ ~exited
       /\ LET n == Len(NewOutput) IN
          /\ n \in {3, 4}
          /\ NewOutput[1].kind = "command"
          /\ n = 4 => NewOutput[2].kind = "indent"
          /\ NewOutput[n - 1].kind = "message"
          /\ NewOutput[n - 1].style = "red"
          /\ NewOutput[n - 1].tag = SubmittedValidation.result.message.tag
          /\ NewOutput[n] = BlankLine

C2_Witness ==
    /\ Dispatched
    /\ last.text = <<Slash>> \o w_run
    /\ SubmittedValidation.level = "required"
    /\ SubmittedValidation.result.status = "invalid"
    /\ Len(NewOutput) = 3
    /\ NewInvoked = <<>>

C5_OptionalNeverBlocks ==
    /\ \A status \in {"valid", "warning", "invalid"} :
          ~display_state(TRUE,
              [result |-> ValidationResult(status, NoMessage),
               level |-> "optional"]).should_block
    /\ (Dispatched /\ SubmittedValidation.level = "optional")
       => /\ Recorded
          /\ SubmittedTarget.kind = "run"
          /\ Len(NewInvoked) = 1
          /\ NewInvoked[1].path = SubmittedTarget.path
          /\ ~HasLine(NewOutput, "message")

C5_Witness ==
    /\ Dispatched
    /\ SubmittedValidation.level = "optional"
    /\ SubmittedValidation.result.status = "invalid"
    /\ Len(SubmittedArgs) = 2
    /\ Len(NewInvoked) = 1
    /\ Recorded

\* C6: the rule of a command has level required when the command has a
\* required argument, a required option or a parameter (argument or option)
\* with a choices set; otherwise optional when it has an optional argument;
\* otherwise none
C6_LevelOfRule ==
    \A path \in DOMAIN validation_rules :
        LET params == PathParams(path)
            needs == \E i \in DOMAIN params :
                        params[i].required \/ params[i].type = "choice"
            optional == \E i \in DOMAIN params :
                        params[i].kind = "argument" /\ ~params[i].required
        IN  validation_rules[path].level =
                IF needs THEN "required"
                ELSE IF optional THEN "optional" ELSE "none"

\* C7 as claimed: validate answers invalid only for a rule of level required
C7_InvalidOnlyRequired ==
    (Validated /\ last.validation.result.status = "invalid")
    => last.validation.level = "required"

\* C7 amended: validate answers invalid exactly when the path has a rule of
\* level required or optional and the arguments fail to bind, and it returns
\* the level of the rule with it; so a binding failure of a command of level
\* optional resolves to (invalid, optional), and only a path without a rule
\* or with a rule of level none always resolves to valid
C7_InvalidWithRuleLevel ==
    Validated =>
        LET v == last.validation
            ruled == HasRule(last.path)
                     /\ validation_rules[last.path].level /= "none"
            fails == ~parse_args(Leaf(PathParams(last.path)), last.args).ok
        IN  /\ v.result.status \in {"valid", "invalid"}
            /\ v.result.status = "invalid" <=> (ruled /\ fails)
            /\ v.result.status = "invalid" =>
                  /\ v.level = validation_rules[last.path].level
                  /\ v.level \in {"required", "optional"}
            /\ ~ruled => v.level = "None"

C7_Witness ==
    /\ Validated
    /\ last.validation.result.status = "invalid"
    /\ last.validation.level = "optional"
    /\ last.validation.result.message.tag = "UsageError"
    /\ Len(last.args) = 2

\* C8: for a command with a required argument, validate(path, []) answers
\* invalid with the message that names a missing required argument (the
\* first one declared), and the level is required
C8_MissingArgumentNamed ==
    (/\ Validated
     /\ HasRule(last.path)
     /\ last.args = <<>>
     /\ RequiredArguments(PathParams(last.path)) /= {})
    => LET params == PathParams(last.path)
           first == CHOOSE i \in RequiredArguments(params) :
                       \A j \in RequiredArguments(params) : i <= j
       IN  /\ last.validation.result.status = "invalid"
           /\ last.validation.result.message.tag = "Missing required argument"
           /\ last.validation.result.message.param = params[first].name
           /\ last.validation.level = "required"

C8_Witness ==
    /\ Validated
    /\ last.path = subcmd_path(w_cfg, w_set)
    /\ last.args = <<>>
    /\ RequiredArguments(PathParams(last.path)) /= {}
    /\ last.validation.result.status = "invalid"
    /\ last.validation.result.message.param = ParamNames[1]

\* the command's one argument has the given shape and no option is required
OnlyArgument(params, nargs, type) ==
    /\ Len(Arguments(params)) = 1
    /\ Arguments(params)[1].nargs \in nargs
    /\ Arguments(params)[1].type = type
    /\ \A i \in DOMAIN params :
          params[i].kind = "option" => ~params[i].required

\* C9: for a command whose argument carries a choices set (its other
\* parameters being options that are not required), validate(path, [v]) is
\* invalid for every v outside the set and valid for every v inside it, and
\* the level is required in both cases
C9_ChoiceDecides ==
    (/\ Validated
     /\ HasRule(last.path)
     /\ OnlyArgument(PathParams(last.path), {1, -1}, "choice")
     /\ Len(last.args) = 1)
    => /\ last.validation.level = "required"
       /\ last.validation.result.status =
             IF last.args[1] \in ChoiceValues THEN "valid" ELSE "invalid"

C9_Witness ==
    /\ Validated
    /\ HasRule(last.path)
    /\ OnlyArgument(PathParams(last.path), {1, -1}, "choice")
    /\ last.args = <<tok_z>>
    /\ last.validation.result.status = "invalid"
    /\ last.validation.result.message.tag = "BadParameter"
    /\ last.validation.result.message.value = tok_z

\* C10: for a required argument of unlimited multiplicity the rule has
\* arg_count_max = -1 and arg_count_min counts only the required arguments
\* of single multiplicity; when it is the command's argument (no choices, no
\* required option), validate(path, []) is invalid and validate(path, args)
\* is valid for every non-empty list of plain tokens
C10_UnlimitedNeedsOne ==
    /\ \A path \in DOMAIN validation_rules :
          LET params == PathParams(path) IN
          (\E i \in RequiredArguments(params) : params[i].nargs = -1)
          => /\ validation_rules[path].arg_count_max = -1
             /\ validation_rules[path].arg_count_min =
                   Cardinality({i \in RequiredArguments(params) :
                                   params[i].nargs = 1})
    /\ (/\ Validated
        /\ HasRule(last.path)
        /\ OnlyArgument(PathParams(last.path), {-1}, "str")
        /\ Arguments(PathParams(last.path))[1].required
        /\ \A i \in DOMAIN last.args : PlainToken(last.args[i]))
       => last.validation.result.status =
             IF last.args = <<>> THEN "invalid" ELSE "valid"

C10_Witness ==
    /\ Validated
    /\ HasRule(last.path)
    /\ OnlyArgument(PathParams(last.path), {-1}, "str")
    /\ Arguments(PathParams(last.path))[1].required
    /\ Len(last.args) = 2
    /\ \A i \in DOMAIN last.args : PlainToken(last.args[i])
    /\ last.validation.result.status = "valid"
    /\ validation_rules[last.path].arg_count_max = -1
    /\ validation_rules[last.path].arg_count_min = 0

----------------------------------------------------------------------------
(* What the last key did *)

Pressed(op) == last.op = op

BeforeText == Text(before.buffer)
BeforeCursor == before.buffer.cursor_position
NowText == Text(input_buffer)

\* Enter gave a text to the dispatcher
Entered == Pressed("enter") /\ last.text /= <<>>

\* the dispatcher handled the entered text as a command and blocked it
EnterBlocked ==
    /\ Entered
    /\ StartsWith(last.text, <<Slash>>) \/ ~enable_agent_mode
    /\ SubmittedWords /= <<>>
    /\ display_state(command_exists(cli, SubmittedName),
                     SubmittedValidation).should_block

\* a completion was selected when the key arrived
HadSelection ==
    /\ before.state.completions /= <<>>
    /\ before.state.selected_idx >= 0

SelectedBefore == before.state.completions[before.state.selected_idx + 1]

\* the placeholders Tab and Space insert for the commands of the tree
Placeholders ==
    LET leaves == {cli[n] : n \in {m \in DOMAIN cli : ~cli[m].isGroup}}
                  \cup UNION {{cli[n].commands[m] :
                                  m \in DOMAIN cli[n].commands} :
                              n \in {m \in DOMAIN cli : cli[m].isGroup}}
    IN  {<<"<">> \o Arguments(c.params)[1].name \o <<">">> :
            c \in {d \in leaves : Arguments(d.params) /= <<>>}}

\* C11: after Enter on a non-empty input the buffer is empty, the cursor is
\* at 0 and no placeholder is active; the text given to the dispatcher is the
\* newest entry of the history unless the submission was blocked, and a
\* blocked submission leaves the history as it was
C11_EnterClearsAndRecords ==
    Entered =>
        /\ NowText = <<>>
        /\ input_buffer.cursor_position = 0
        /\ ~state.placeholder_active
        /\ IF EnterBlocked THEN HistoryUnchanged
           ELSE /\ history /= <<>>
                /\ history[Len(history)] = last.text

\* C12: Enter never submits placeholder text: when the input holds the
\* placeholder that Tab or Space inserted, whatever the name of the
\* parameter, the text given to the dispatcher does not hold it
C12_PlaceholderNeverSubmitted ==
    Entered =>
        \A token \in Placeholders :
            contains(BeforeText, token) => ~contains(last.text, token)

\* the text and the cursor the text-changed handler found after an insertion
InsertedText ==
    slice(BeforeText, 0, BeforeCursor) \o last.text
    \o Drop(BeforeText, BeforeCursor)

InsertedCursor == BeforeCursor + Len(last.text)

\* C13: when a placeholder is active, the text holds a token <[a-z0-9_]+>
\* and the cursor is past placeholderStart (and not inside the token), the
\* text-changed handler removes exactly the token, keeps every other
\* character, moves the cursor back by the length of the token when the
\* cursor was beyond it, and clears placeholderActive
C13_PlaceholderSpanRemoved ==
    LET span == re_search(InsertedText) IN
    (/\ Pressed("insert")
     /\ before.state.placeholder_active
     /\ span.found
     /\ InsertedCursor > before.state.placeholder_start
     /\ InsertedCursor <= span.start \/ InsertedCursor >= span.end)
    => /\ NowText = slice(InsertedText, 0, span.start)
                    \o Drop(InsertedText, span.end)
       /\ input_buffer.cursor_position =
             IF InsertedCursor >= span.end
             THEN InsertedCursor - (span.end - span.start)
             ELSE InsertedCursor
       /\ ~state.placeholder_active

\* C14: after Tab inserted the selected completion, the completions of the
\* resulting text do not offer the inserted token again, also when the
\* completed command declares no argument and is not a group
C14_NoSelfCompletion ==
    (Pressed("tab") /\ HadSelection)
    => LET again == get_completions(cli, NowText) IN
       \A i \in DOMAIN again : again[i].text /= SelectedBefore.text

\* the trimmed input of Enter, the placeholder <text> taken out
EnterInput ==
    LET stripped == strip(BeforeText) IN
    remove_all(remove_all(stripped, <<Space>> \o placeholder_text),
               placeholder_text)

StrictPrefix(a, b) == Len(a) < Len(b) /\ SubSeq(b, 1, Len(a)) = a

\* C15: on Enter, when a completion is selected and the input is "/" or its
\* first word after the "/" is a strict prefix of the text of the selected
\* completion, the text given to the dispatcher is "/" and the completion,
\* then one space and the rest of the input if there is any; in every other
\* case it is the trimmed input
C15_EnterCompletes ==
    Pressed("enter") =>
        LET input == EnterInput
            words == split(input)
            rest == SkipWs(Drop(input, Len(words[1])))
            completes ==
                /\ HadSelection
                /\ StartsWith(input, <<Slash>>)
                /\ \/ input = <<Slash>>
                   \/ StrictPrefix(Tail(words[1]), SelectedBefore.text)
        IN  last.text =
                IF completes
                THEN <<Slash>> \o SelectedBefore.text
                     \o (IF rest = <<>> THEN <<>> ELSE <<Space>> \o rest)
                ELSE input

C15_Witness ==
    /\ Pressed("enter")
    /\ HadSelection
    /\ BeforeText = <<Slash>> \o w_se \o <<Space, "s">>
    /\ last.text = <<Slash>> \o w_set \o <<Space, "s">>
    /\ HasLine(NewOutput, "unknown")

\* the text Tab makes of the input: the selected completion in place of the
\* characters it replaces before the cursor
Completed ==
    slice(BeforeText, 0, BeforeCursor + SelectedBefore.start_position)
    \o SelectedBefore.text \o Drop(BeforeText, BeforeCursor)

TabCompleted ==
    /\ Pressed("tab")
    /\ HadSelection
    /\ BeforeCursor + SelectedBefore.start_position >= 0

CompletedParts == split(lstrip(Completed, {Slash}))

\* the parameters of the command the completed text names: a leaf command or
\* a subcommand of a group
CompletedParams ==
    LET parts == CompletedParts IN
    IF parts = <<>> \/ parts[1] \notin DOMAIN cli THEN <<>>
    ELSE IF ~cli[parts[1]].isGroup THEN cli[parts[1]].params
    ELSE IF Len(parts) > 1 /\ parts[2] \in DOMAIN cli[parts[1]].commands
    THEN cli[parts[1]].commands[parts[2]].params
    ELSE <<>>

\* C16: after Tab completed a leaf command or a subcommand that declares an
\* argument, the text ends with " <name>" for the first argument declared,
\* placeholderActive is true, and the cursor equals placeholderStart, the
\* position where the placeholder starts in the text
C16_TabInsertsPlaceholder ==
    (TabCompleted /\ Arguments(CompletedParams) /= <<>>)
    => LET token == <<Space, "<">> \o Arguments(CompletedParams)[1].name
                    \o <<">">>
           n == Len(NowText)
       IN  /\ slice(NowText, n - Len(token), n) = token
           /\ state.placeholder_active
           /\ input_buffer.cursor_position = state.placeholder_start
           /\ state.placeholder_start = n - Len(token) + 1

\* the weaker reading of C16, for a cursor that is not at the end of the text:
\* " <name>" stands right after the completed token, before whatever followed
\* the cursor, placeholderActive is true, and the cursor equals
\* placeholderStart, the position of the "<"
TabPlaceholderAtCursor ==
    (TabCompleted /\ Arguments(CompletedParams) /= <<>>)
    => LET token == <<Space, "<">> \o Arguments(CompletedParams)[1].name
                    \o <<">">>
           at == BeforeCursor + SelectedBefore.start_position
                 + Len(SelectedBefore.text)
       IN  /\ NowText = slice(Completed, 0, at) \o token \o Drop(Completed, at)
           /\ state.placeholder_active
           /\ input_buffer.cursor_position = state.placeholder_start
           /\ state.placeholder_start = at + 1

\* C17: Tab on a completion that names a group with no subcommand chosen
\* appends one space after the name of the group and inserts no placeholder:
\* placeholderActive and placeholderStart are as before
C17_TabOnGroupAppendsSpace ==
    (/\ TabCompleted
     /\ Len(CompletedParts) = 1
     /\ CompletedParts[1] \in DOMAIN cli
     /\ cli[CompletedParts[1]].isGroup)
    => /\ NowText = Completed \o <<Space>>
       /\ NowText = <<Slash>> \o CompletedParts[1] \o <<Space>>
       /\ state.placeholder_active = before.state.placeholder_active
       /\ state.placeholder_start = before.state.placeholder_start

C17_Witness ==
    /\ TabCompleted
    /\ BeforeText = <<Slash>>
    /\ SelectedBefore.text = w_cfg
    /\ NowText = <<Slash>> \o w_cfg \o <<Space>>
    /\ ~state.placeholder_active

\* the menu is what Up and Down act on
MenuContext ==
    before.state.slash_command_active /\ Len(before.state.completions) > 1

\* C18: whenever slashActive holds and more than one completion is listed,
\* Up takes one from selectedIndex and Down adds one to it, within
\* 0..len(completions)-1 and without wrapping around, and nothing else
\* changes: not the text, not the cursor, not the history position
C18_MenuNavigation ==
    ((Pressed("up") \/ Pressed("down")) /\ MenuContext)
    => LET idx == before.state.selected_idx
           n == Len(before.state.completions)
       IN  /\ state.selected_idx =
                 IF Pressed("up") THEN Max(0, idx - 1) ELSE Min(n - 1, idx + 1)
           /\ state = [before.state EXCEPT !.selected_idx = state.selected_idx]
           /\ input_buffer = before.buffer
           /\ HistoryUnchanged

C18_Witness ==
    /\ Pressed("up")
    /\ MenuContext
    /\ before.state.selected_idx = 1
    /\ state.selected_idx = 0
    /\ keys = 3

LastRow(text) == Cardinality(line_starts(text)) - 1

\* C19: Up and Down choose one action by a fixed priority: the menu when
\* slashActive holds with more than one completion; else a move of the cursor
\* by one row when the input is multiline; else the history, backward for Up
\* and forward for Down, when the cursor is at 0; else the cursor goes to 0.
\* The history position never moves in the menu or multiline context
C19_UpDownPriority ==
    (Pressed("up") \/ Pressed("down"))
    => LET b == before.buffer
           row == row_of(BeforeText, b.cursor_position)
           lines == Len(b.working_lines)
       IN  IF MenuContext THEN
               /\ input_buffer = b
               /\ state.selected_idx \in
                     {before.state.selected_idx - 1, before.state.selected_idx,
                      before.state.selected_idx + 1}
           ELSE IF before.state.is_multiline THEN
               /\ input_buffer.working_index = b.working_index
               /\ input_buffer.working_lines = b.working_lines
               /\ state = before.state
               /\ row_of(NowText, input_buffer.cursor_position) =
                     IF Pressed("up") THEN Max(0, row - 1)
                     ELSE Min(LastRow(BeforeText), row + 1)
           ELSE IF b.cursor_position = 0 THEN
               input_buffer.working_index =
                   IF Pressed("up") THEN Max(0, b.working_index - 1)
                   ELSE Min(lines - 1, b.working_index + 1)
           ELSE
               /\ input_buffer.cursor_position = 0
               /\ input_buffer.working_index = b.working_index
               /\ input_buffer.working_lines = b.working_lines
               /\ state = before.state

C19_Witness ==
    /\ Pressed("up")
    /\ ~MenuContext
    /\ before.state.is_multiline
    /\ BeforeCursor = 0
    /\ before.buffer.working_index > 0
    /\ input_buffer.working_index = before.buffer.working_index

\* C20: from any state, Escape leaves the input text empty, the cursor at 0,
\* and placeholderActive and menuKeepVisible false
C20_EscapeClears ==
    Pressed("escape")
    => /\ NowText = <<>>
       /\ input_buffer.cursor_position = 0
       /\ ~state.placeholder_active
       /\ ~state.menu_keep_visible

C20_Witness ==
    /\ Pressed("escape")
    /\ before.state.placeholder_active
    /\ before.state.menu_keep_visible
    /\ BeforeCursor > 0
    /\ NowText = <<>>
    /\ ~state.placeholder_active

----------------------------------------------------------------------------
(* The dispatcher over a session *)

\* the body of a command ran and raised an exception that is no SystemExit
BodyFailed ==
    /\ Dispatched
    /\ NewInvoked /= <<>>
    /\ callback \in {"raises", "missing", "missing_unnamed"}

\* C21: when the body of a command raises an exception that is no
\* termination signal, the dispatcher appends an error line to the output,
\* the exception does not leave the dispatcher, the interaction state is as
\* it was, and the session goes on: it is neither exited nor broken
C21_FailureReported ==
    BodyFailed =>
        /\ HasLine(NewOutput, "error")
        /\ ~raised
        /\ ~exited
        /\ state = before.state
        /\ input_buffer = before.buffer

\* the built-in quit or exit reached the dispatcher's command handling
QuitSubmitted == Dispatched /\ SubmittedName \in {w_quit, w_exit}

\* C22: a submission of the built-in quit or exit emits the farewell line
\* and asks the application to exit without running a command body, and
\* nothing is submitted after the exit was asked for
C22_QuitEndsSession ==
    /\ QuitSubmitted =>
           /\ HasLine(NewOutput, "farewell")
           /\ exited
           /\ NewInvoked = <<>>
    /\ exited => QuitSubmitted

\* C23: in agent mode a submission that does not start with "/" is echoed to
\* the output as it is and nothing else happens: no validation message, no
\* entry in the history, no command body, no exit
C23_FreeTextEchoed ==
    (Submitted /\ enable_agent_mode /\ ~StartsWith(last.text, <<Slash>>))
    => /\ NewOutput = <<Line("agent", "cyan", "", <<last.text>>), BlankLine>>
       /\ HistoryUnchanged
       /\ NewInvoked = <<>>
       /\ ~exited
       /\ ~raised

C23_Witness ==
    /\ Submitted
    /\ enable_agent_mode
    /\ last.text = join(<<w_run, tok_a>>)
    /\ NewOutput = <<Line("agent", "cyan", "", <<last.text>>), BlankLine>>
    /\ invoked = <<>>

----------------------------------------------------------------------------
(* The completer *)

Asked == last.op = "get_completions"

CompletionTexts == [i \in DOMAIN last.completions |-> last.completions[i].text]

NameSet(names) == {names[i] : i \in DOMAIN names}

Ascending(names) ==
    \A i, j \in DOMAIN names : i < j => str_less(names[i], names[j])

\* the tokens after the slash
AskedTokens == split(Tail(last.text))

\* the text is a slash and then no whitespace
SlashToken ==
    /\ Asked
    /\ StartsWith(last.text, <<Slash>>)
    /\ \A i \in 2..Len(last.text) : last.text[i] \notin Whitespace

\* C24: for a text that is "/" and a prefix, whatever the case of the
\* prefix, the completions are exactly the top-level names whose lower-case
\* form starts with the lower-case prefix, in ascending order; for "/" they
\* are all the top-level names in ascending order
C24_TopLevelByPrefix ==
    SlashToken =>
        /\ NameSet(CompletionTexts) =
               {n \in DOMAIN cli :
                   StartsWith(lower(n), lower(Tail(last.text)))}
        /\ Ascending(CompletionTexts)
        /\ last.text = <<Slash>>
               => /\ NameSet(CompletionTexts) = DOMAIN cli
                  /\ Len(CompletionTexts) = Cardinality(DOMAIN cli)

C24_Witness ==
    /\ Asked
    /\ cli = FlatTree
    /\ last.text = <<Slash, "R">>
    /\ CompletionTexts = <<w_rm, w_run>>

\* the text ends in a token being typed
MidToken ==
    /\ Asked
    /\ StartsWith(last.text, <<Slash>>)
    /\ Len(last.text) > 1
    /\ last.text[2] \notin Whitespace
    /\ last.text[Len(last.text)] \notin Whitespace

TypedPrefix == AskedTokens[Len(AskedTokens)]

\* the names and flags of the tree
TreeWords(tree) ==
    DOMAIN tree
    \cup UNION {DOMAIN tree[n].commands : n \in {m \in DOMAIN tree : tree[m].isGroup}}
    \cup UNION {option_flags(tree[n]) : n \in DOMAIN tree}
    \cup UNION {UNION {option_flags(tree[n].commands[m]) :
                           m \in DOMAIN tree[n].commands} :
                    n \in {m \in DOMAIN tree : tree[m].isGroup}}

\* C25: every completion of a token being typed, at the top level, among
\* the subcommands or among the options, has start_position minus the length
\* of the typed prefix, and deleting that many characters before the cursor
\* and inserting the completion leaves the full token in place of the prefix
C25_ReplaceFromPrefix ==
    MidToken =>
        \A i \in DOMAIN last.completions :
            LET c == last.completions[i]
                replaced ==
                    SubSeq(last.text, 1, Len(last.text) + c.start_position)
                    \o c.text
            IN  /\ c.start_position = 0 - Len(TypedPrefix)
                /\ c.text \in TreeWords(cli)
                /\ split(Tail(replaced)) =
                       SubSeq(AskedTokens, 1, Len(AskedTokens) - 1)
                       \o <<c.text>>

C25_Witness ==
    /\ MidToken
    /\ last.text = <<Slash>> \o join(<<w_run, <<"-", "-">> >>)
    /\ last.completions = <<Completion(opts(ParamNames[1]), 0 - 2),
                            Completion(opts(ParamNames[2]), 0 - 2)>>

\* the tokens name a path of the tree from the node
RECURSIVE is_path(_, _)
is_path(node, tokens) ==
    \/ tokens = <<>>
    \/ /\ node.isGroup
       /\ Head(tokens) \in DOMAIN node.commands
       /\ is_path(node.commands[Head(tokens)], Tail(tokens))

RECURSIVE node_at(_, _)
node_at(node, tokens) ==
    IF tokens = <<>> THEN node
    ELSE node_at(node.commands[Head(tokens)], Tail(tokens))

\* the text is the path of a command and whitespace after it
AfterPath ==
    /\ Asked
    /\ StartsWith(last.text, <<Slash>>)
    /\ Len(last.text) > 1
    /\ last.text[2] \notin Whitespace
    /\ last.text[Len(last.text)] \in Whitespace
    /\ is_path(Group(cli), AskedTokens)

UnknownBase ==
    /\ StartsWith(last.text, <<Slash>>)
    /\ AskedTokens /= <<>>
    /\ Head(AskedTokens) \notin DOMAIN cli
    /\ Len(last.text) > 1 + Len(Head(AskedTokens))

\* C27: there are no completions for a text that does not start with "/"
\* (whitespace before the slash included), whose first token is no command
\* of the tree, or that has whitespace right after the slash
C27_NoCompletions ==
    (/\ Asked
     /\ \/ ~StartsWith(last.text, <<Slash>>)
        \/ UnknownBase
        \/ StartsWith(last.text, <<Slash, Space>>))
    => last.completions = <<>>

C27_Witness ==
    /\ Asked
    /\ last.text = <<Slash, Space>>
    /\ DOMAIN cli /= {}
    /\ last.completions = <<>>

----------------------------------------------------------------------------
(* The validator's rules *)

\* C28: validate answers valid with no level for every path without a rule
\* and for every path whose rule has level none, whatever the arguments,
\* also arguments the command would not bind
C28_NoRuleNoLevel ==
    (/\ Validated
     /\ \/ last.path \notin DOMAIN validation_rules
        \/ validation_rules[last.path].level = "none")
    => last.validation =
          [result |-> ValidationResult("valid", NoMessage), level |-> "None"]

C28_Witness ==
    /\ Validated
    /\ last.path = w_run
    /\ validation_rules[w_run].level = "none"
    /\ ~parse_args(cli[w_run], last.args).ok
    /\ last.validation.result.status = "valid"
    /\ last.validation.level = "None"

\* C29: the rules introspection made are one for each top-level command that
\* is no group, under its name, and one for each direct child of each group,
\* under "<group>.<child>", each holding the command it was made from; no
\* rule is kept under the name of a group, and validate finds the rule of a
\* command under these keys
C29_RuleKeys ==
    LET leaves == {n \in DOMAIN cli : ~cli[n].isGroup}
        groups == {n \in DOMAIN cli : cli[n].isGroup}
    IN  /\ DOMAIN validation_rules =
               leaves \cup UNION {{g \o <<".">> \o m : m \in DOMAIN cli[g].commands}
                                     : g \in groups}
        /\ \A n \in leaves :
               validation_rules[n] = extract_validation_rule(cli[n])
        /\ \A g \in groups : \A m \in DOMAIN cli[g].commands :
               validation_rules[g \o <<".">> \o m] =
                   extract_validation_rule(cli[g].commands[m])
        /\ (Validated /\ last.path \in groups)
               => last.validation.level = "None"
        /\ (/\ Validated
            /\ last.path \in DOMAIN validation_rules
            /\ validation_rules[last.path].level /= "none")
           => last.validation.level = validation_rules[last.path].level

C29_Witness ==
    /\ Validated
    /\ last.path = w_cfg \o <<".">> \o w_set
    /\ last.path \in DOMAIN validation_rules
    /\ w_set \notin DOMAIN validation_rules
    /\ w_cfg \notin DOMAIN validation_rules
    /\ last.validation.level = "required"
    /\ last.validation.result.status = "invalid"

----------------------------------------------------------------------------
(* The text-changed handler *)

\* the text after the edit of the last key, when the handler took nothing
\* out of it
EditedText ==
    slice(BeforeText, 0, BeforeCursor)
    \o (IF Pressed("ctrl_j") THEN <<Newline>> ELSE last.text)
    \o Drop(BeforeText, BeforeCursor)

\* characters or a line break were inserted and no placeholder was removed
TextChanged ==
    /\ Pressed("insert") \/ Pressed("ctrl_j")
    /\ NowText = EditedText

\* C30: after a change of the text that removes no placeholder,
\* slash_command_active tells whether the text starts with "/" and
\* is_multiline whether it holds a line break; for a text that starts with
\* "/" the completions are those of the text, selected_idx is 0 when there
\* are any and -1 when there are none, and menu_keep_visible is true when
\* there are any; for any other text there are no completions, selected_idx
\* is -1 and menu_keep_visible is false
C30_StateFollowsText ==
    TextChanged =>
        /\ state.slash_command_active = StartsWith(NowText, <<Slash>>)
        /\ state.is_multiline = (\E i \in DOMAIN NowText : NowText[i] = Newline)
        /\ IF StartsWith(NowText, <<Slash>>)
           THEN /\ state.completions = get_completions(cli, NowText)
                /\ state.selected_idx =
                       IF state.completions /= <<>> THEN 0 ELSE 0 - 1
                /\ state.completions /= <<>> => state.menu_keep_visible
           ELSE /\ state.completions = <<>>
                /\ state.selected_idx = 0 - 1
                /\ ~state.menu_keep_visible

C30_Witness ==
    /\ TextChanged
    /\ Pressed("ctrl_j")
    /\ before.state.completions /= <<>>
    /\ state.slash_command_active
    /\ state.is_multiline
    /\ state.completions = <<>>
    /\ state.selected_idx = 0 - 1
    /\ state.menu_keep_visible

----------------------------------------------------------------------------
(* Space *)

\* the text before the cursor when the key arrived, and the text after it
TextBefore == slice(BeforeText, 0, BeforeCursor)
TextAfter == Drop(BeforeText, BeforeCursor)

\* the placeholder Space owes the text before the cursor: that of the command
\* when the text is "/name", that of the subcommand when it is "/group sub",
\* NoWord in every other case
OwedPlaceholder ==
    LET parts == split(Drop(TextBefore, 1)) IN
    IF ~StartsWith(TextBefore, <<Slash>>) THEN NoWord
    ELSE IF /\ TextBefore = <<Slash>> \o join(parts)
            /\ Len(parts) = 1
            /\ parts[1] \in DOMAIN cli
            /\ ~cli[parts[1]].isGroup
    THEN get_argument_placeholder_text(cli, parts[1], NoWord)
    ELSE IF /\ TextBefore = <<Slash>> \o join(parts)
            /\ Len(parts) = 2
            /\ parts[1] \in DOMAIN cli
            /\ cli[parts[1]].isGroup
            /\ parts[2] \in DOMAIN cli[parts[1]].commands
    THEN get_argument_placeholder_text(cli, parts[1], parts[2])
    ELSE NoWord

\* C31: Space inserts " <name>" and sets placeholder_active and
\* placeholder_start to the position of the "<" exactly when the text before
\* it is "/name" for a command or "/group sub" for a subcommand that declares
\* an argument; in every other case it inserts one space at the cursor and
\* leaves placeholder_active and placeholder_start as they were
C31_SpaceAtBoundary ==
    Pressed("space") =>
        IF OwedPlaceholder /= NoWord
        THEN /\ NowText = TextBefore \o <<Space>> \o OwedPlaceholder
                          \o TextAfter
             /\ state.placeholder_active
             /\ state.placeholder_start = BeforeCursor + 1
             /\ input_buffer.cursor_position = state.placeholder_start
        ELSE /\ NowText = TextBefore \o <<Space>> \o TextAfter
             /\ state.placeholder_active = before.state.placeholder_active
             /\ state.placeholder_start = before.state.placeholder_start

\* C31 for Space at the end of a text that holds no placeholder
SpaceAtEndOfText ==
    (/\ Pressed("space")
     /\ BeforeCursor = Len(BeforeText)
     /\ ~before.state.placeholder_active)
    => C31_SpaceAtBoundary

----------------------------------------------------------------------------
(* The echo line *)

\* C32: the icon of the echo line is the error icon when the command is
\* unknown or the submission is blocked, the warning icon when the level is
\* optional and the result asks for a warning, and the success icon or the
\* plain icon in every other case, whether the text holds arguments or not
C32_EchoIcon ==
    Dispatched =>
        LET exists == command_exists(cli, SubmittedName)
            blocked == /\ SubmittedValidation.level = "required"
                       /\ should_block(SubmittedValidation.result)
            warned == /\ SubmittedValidation.level = "optional"
                      /\ should_warn(SubmittedValidation.result)
        IN  /\ NewOutput /= <<>>
            /\ NewOutput[1].kind = "command"
            /\ IF ~exists \/ blocked
               THEN NewOutput[1].style = "command_error"
               ELSE IF warned THEN NewOutput[1].style = "warning"
               ELSE NewOutput[1].style \in {"command_success", "command_with_args"}

\* C32 for a text that holds the name of the command and nothing else
EchoIconWithoutArguments ==
    (Dispatched /\ Len(SubmittedWords) = 1) => C32_EchoIcon

----------------------------------------------------------------------------
(* Execution *)

\* the submission named a group and, after it, one of its subcommands
NamedSubcommand ==
    /\ SubmittedName \in DOMAIN cli
    /\ cli[SubmittedName].isGroup
    /\ SubmittedArgs /= <<>>
    /\ SubmittedArgs[1] \in DOMAIN cli[SubmittedName].commands

\* the value argument k of the declared arguments receives from the tokens:
\* the token at its place, all the tokens from its place on when it is of
\* unlimited multiplicity, nothing after an argument of unlimited multiplicity
TokensFor(arguments, tokens, k) ==
    IF \E j \in 1..(k - 1) : arguments[j].nargs = 0 - 1 THEN <<>>
    ELSE IF arguments[k].nargs = 0 - 1 THEN Drop(tokens, Min(k - 1, Len(tokens)))
    ELSE IF k <= Len(tokens) THEN <<tokens[k]>>
    ELSE <<>>

----------------------------------------------------------------------------
(* Enter on nothing *)

\* C34: Enter on an input that is empty once it is trimmed and the
\* placeholder is taken out does nothing: the buffer, the interaction state
\* and the history are as before, nothing is given to the dispatcher, nothing
\* reaches the sink and no body is invoked
C34_EnterOnEmptyInput ==
    (Pressed("enter") /\ EnterInput = <<>>)
    => /\ last.text = <<>>
       /\ input_buffer = before.buffer
       /\ state = before.state
       /\ HistoryUnchanged
       /\ NewOutput = <<>>
       /\ NewInvoked = <<>>
       /\ ~exited

C34_Witness ==
    /\ Pressed("enter")
    /\ EnterInput = <<>>
    /\ BeforeText = <<Space, Newline>>
    /\ NowText = BeforeText
    /\ state.is_multiline

----------------------------------------------------------------------------
(* A submission without tokens *)

\* C35: a submission that is not echoed as free text and holds no token
\* once the leading "/" is taken off changes nothing: no line reaches the
\* sink (no echo, no validation message), the history is not recorded, no
\* body is invoked and the session goes on
C35_NoTokensNoOp ==
    (/\ Submitted
     /\ StartsWith(last.text, <<Slash>>) \/ ~enable_agent_mode
     /\ SubmittedWords = <<>>)
    => /\ NewOutput = <<>>
       /\ HistoryUnchanged
       /\ NewInvoked = <<>>
       /\ ~exited
       /\ ~raised

C35_Witness ==
    /\ Submitted
    /\ last.text = <<Slash>>
    /\ output = <<>>
    /\ history = <<<<Slash>> \o w_run>>
    /\ invoked = <<>>

----------------------------------------------------------------------------
(* Tab in the middle of the text *)

\* the text with the selected completion in place of the token in progress,
\* the characters the completion replaces at the end of the text
TokenCompleted ==
    slice(BeforeText, 0, Max(Len(BeforeText) + SelectedBefore.start_position, 0))
    \o SelectedBefore.text

\* C36: after Tab with a completion selected the text still begins with "/",
\* the token in progress reads as the text of the selected completion, and
\* every other character is as it was: nothing but the space or the
\* placeholder Tab adds follows the token
C36_TabKeepsTheRest ==
    (Pressed("tab") /\ HadSelection)
    => /\ StartsWith(NowText, <<Slash>>)
       /\ StartsWith(NowText, TokenCompleted)
       /\ Drop(NowText, Len(TokenCompleted))
             \in {<<>>, <<Space>>} \cup {<<Space>> \o token : token \in Placeholders}

\* C36 for Tab with the cursor at the end of the text
TabAtEndOfText ==
    BeforeCursor = Len(BeforeText) => C36_TabKeepsTheRest

----------------------------------------------------------------------------
(* The selected completion *)

\* C37 as claimed: in every state selected_idx is -1 or an index of
\* completions
C37_SelectedIndexInList ==
    \/ state.selected_idx = 0 - 1
    \/ /\ 0 <= state.selected_idx
       /\ state.selected_idx < Len(state.completions)

\* C37: in every state selected_idx is -1, or an index of completions, or 0
\* while completions is empty (the state a session starts in and the state
\* Enter leaves); Tab and Enter read completions[selected_idx] only when
\* completions is not empty and selected_idx is not negative, and the index
\* is then inside the list
C37_SelectedIndexReadable ==
    /\ \/ state.selected_idx = 0 - 1
       \/ /\ 0 <= state.selected_idx
          /\ state.selected_idx < Len(state.completions)
       \/ /\ state.completions = <<>>
          /\ state.selected_idx = 0
    /\ (Pressed("tab") \/ Pressed("enter")) /\ HadSelection
          => before.state.selected_idx < Len(before.state.completions)

C37_Witness ==
    /\ Pressed("tab")
    /\ HadSelection
    /\ before.state.selected_idx = 1
    /\ Len(before.state.completions) = 2
    /\ NowText /= BeforeText

----------------------------------------------------------------------------
(* The values of the binding and the values of the call *)

\* the validator bound the tokens of the submission and accepted them
BoundAndAccepted ==
    /\ Dispatched
    /\ SubmittedValidation.level \in {"required", "optional"}
    /\ SubmittedValidation.result.status = "valid"
    /\ NewInvoked /= <<>>

\* C38: when the validator bound the tokens of a submission and accepted
\* them, the body is invoked with the values the binding gave: every
\* declared argument and option receives the tokens parse_args assigned to it
C38_CallMatchesBinding ==
    BoundAndAccepted =>
        NewInvoked[1].kwargs =
            parse_args(cli[SubmittedName], SubmittedArgs).values

\* C38 for a command that declares no option and tokens that hold no flag
CallMatchesBindingOfArguments ==
    (/\ BoundAndAccepted
     /\ \A i \in DOMAIN cli[SubmittedName].params :
            cli[SubmittedName].params[i].kind = "argument"
     /\ \A i \in DOMAIN SubmittedArgs : PlainToken(SubmittedArgs[i]))
    => C38_CallMatchesBinding

----------------------------------------------------------------------------
(* C39 *)

ValidatedAuto == last.op = "validate_auto"

\* C39: a call of validate(path, args), by the validation manager or by the
\* REPL's own validator, leaves the argument list of the caller as it was
C39_ValidateKeepsList ==
    (Validated \/ ValidatedAuto) => last.left = last.args

\* the validation manager leaves the list of its caller as it was
ManagerKeepsList == Validated => last.left = last.args

\* the dispatcher holding the validation manager executes a command that is
\* not blocked with the tokens that were validated
ExecutedWithValidatedTokens ==
    (Dispatched /\ Len(invoked) > last.ninvoked) =>
        invoked[Len(invoked)] =
            execute_click_command(SubmittedTarget.path, SubmittedTarget.cmd,
                                  SubmittedTarget.args).invocation

----------------------------------------------------------------------------
(* C40 *)

\* the submission reached the execution: it was not blocked and it names
\* neither quit nor exit
ReachedExecution ==
    /\ Dispatched
    /\ SubmittedName \notin {w_quit, w_exit}
    /\ ~display_state(command_exists(cli, SubmittedName),
                      SubmittedValidation).should_block

\* the lines of a text as the body wrote them, each ended by its newline
WrittenLines(text) ==
    IF text = <<>> THEN <<>>
    ELSE IF text[Len(text)] = Newline
    THEN split_lines(SubSeq(text, 1, Len(text) - 1))
    ELSE split_lines(text)

\* the place of a line in the order of the claim: echo, warning, output with
\* standard output before standard error, blank
OrderOf(line) ==
    CASE line.kind \in {"command", "indent"} -> 1
      [] line.kind = "message" -> 2
      [] line.kind = "stderr" -> 4
      [] line.kind = "blank" -> 5
      [] OTHER -> 3

\* what the lines of a kind appended by the submission read
AppendedOf(kind) ==
    LET OfKind(line) == line.kind = kind
        lines == SelectSeq(NewOutput, OfKind)
    IN  [i \in DOMAIN lines |-> lines[i].words[1]]

\* the echo comes first, a blank line last, and the lines between are in
\* the order of the claim
OutputInOrder ==
    /\ Len(NewOutput) >= 2
    /\ NewOutput[1].kind = "command"
    /\ NewOutput[Len(NewOutput)] = BlankLine
    /\ \A i, j \in DOMAIN NewOutput :
           i < j => OrderOf(NewOutput[i]) <= OrderOf(NewOutput[j])

\* every line the body wrote is appended once, and the lines of standard
\* error are styled as errors
CapturedOnce ==
    /\ NewInvoked /= <<>> =>
           /\ AppendedOf("stdout") =
                  WrittenLines(stdout_written(callback, SubmittedTarget.path))
           /\ AppendedOf("stderr") =
                  WrittenLines(stderr_written(callback, SubmittedTarget.path))
    /\ \A i \in DOMAIN NewOutput :
           NewOutput[i].kind = "stderr" => NewOutput[i].style = "red"

\* C40: for a submission that reaches the execution the lines appended to
\* the output are the echo first, then a validation warning if there is one,
\* then the output of the command, then a blank line last; in the output of
\* the command the lines of standard output come before the lines of standard
\* error, every line the body wrote is appended exactly once, and the lines
\* of standard error are styled as errors
C40_OutputOrdered == ReachedExecution => (OutputInOrder /\ CapturedOnce)

\* the order of the claim, for the bodies whose exception is handled
OutputInOrderWhenHandled ==
    (ReachedExecution /\ ~raised) => OutputInOrder

\* the captured lines of the claim, for the bodies whose exception is
\* handled and whose text does not end in blank lines
CapturedOnceWithoutTrailingBlank ==
    (ReachedExecution /\ ~raised /\ callback /= "trails") => CapturedOnce

\* a body wrote to both streams and its lines were appended in the order of
\* the claim
OutputOfBothStreams ==
    /\ ReachedExecution
    /\ callback = "warns"
    /\ Len(AppendedOf("stdout")) = 1
    /\ Len(AppendedOf("stderr")) = 2
    /\ OutputInOrder
    /\ CapturedOnce

====
